---- MODULE Spec2Model ----
(***************************************************************************)
(* md-kb: the synchronization-and-search engine.                           *)
(*                                                                         *)
(* State: the markdown directory (disk), the markdown_documents table      *)
(* (store), the database clock and SERIAL sequence, one full               *)
(* reconciliation task (index_directory), single-file tasks (index_file    *)
(* reached from the watcher / create_file / update_file, and delete_file)  *)
(* the last search request and the last listing request.                   *)
(*                                                                         *)
(* Every await of the code is a step boundary: between two steps of one    *)
(* task the other tasks and the filesystem may move.                       *)
(***************************************************************************)
EXTENDS Integers, Sequences, FiniteSets, TLC

(* ------------------------------ bounds -------------------------------- *)

\* Number of upsert statements a behaviour may execute (the database clock).
MaxTime == 3

\* Document files of the markdown directory (full path strings).
Paths == {"a.md", "b.md"}

\* File contents; "" is an empty file.
Contents == {"", "hello", "world", "world wide"}

\* Single-file tasks that may be in flight.
Tasks == {"t1", "t2"}

\* disk[p] of a path with no file.
NoFile == "<no file>"

\* Python's None for an embedding; a vector is a non-empty tuple.
None == <<>>

\* Number of operations (calls and filesystem changes) the concurrent
\* specification starts in one behaviour.
MaxOps == 3

VARIABLES disk, store, now, seq, rec, hist, task, sr, ops, ls, watch

vars == <<disk, store, now, seq, rec, hist, task, sr, ops, ls, watch>>

(* --------------------------- pure functions --------------------------- *)

\* hashlib.sha256 of the file's bytes: deterministic and injective on Contents.
compute_checksum(content) == "sha256:" \o content

\* The embedding model: text -> vector.  Vectors are points of a scale on
\* which the distance below is the cosine distance in tenths.
Vec(text) ==
    CASE text = "hello"      -> <<0>>
      [] text = "world"      -> <<3>>
      [] text = "far"        -> <<5>>
      [] text = "world wide" -> <<8>>
      [] OTHER               -> <<20>>

\* EmbeddingService.generate_embedding: the vector, or None when the call fails.
generate_embedding(text, ok) == IF ok THEN Vec(text) ELSE None

\* pgvector's <=> (cosine distance), in tenths: 0 = identical, 20 = opposite.
CosineDistance(u, v) == IF u[1] >= v[1] THEN u[1] - v[1] ELSE v[1] - u[1]

\* MarkdownDocument.validate: the list of error messages.
validate(doc) ==
    (IF doc.file_path = "" THEN <<"file_path: This field is required">> ELSE <<>>)
    \o (IF doc.checksum = "" THEN <<"checksum: This field is required">> ELSE <<>>)
    \o (IF doc.content = "" THEN <<"content: This field is required">> ELSE <<>>)

\* All orders in which a finite set can be enumerated.
Enumerations(S) ==
    {s \in [1..Cardinality(S) -> S] : \A i, j \in 1..Cardinality(S) : i # j => s[i] # s[j]}

SeqToSet(s) == {s[k] : k \in 1..Len(s)}

(* ------------------------------ the Store ----------------------------- *)

RowFor(rows, p) == CHOOSE r \in rows : r.file_path = p

HasRow(rows, p) == \E r \in rows : r.file_path = p

\* INSERT ... ON CONFLICT (file_path) DO UPDATE SET checksum, content,
\* embedding, updated_at = NOW(): id and indexed_at are kept on conflict.
UpsertAlwaysInsert(rows, p, ck, ct, emb, t, id) ==
    rows \cup {[id |-> id, file_path |-> p, checksum |-> ck, content |-> ct,
                embedding |-> emb, indexed_at |-> t, updated_at |-> t]}

\* ON CONFLICT DO UPDATE without "embedding = EXCLUDED.embedding": the vector of
\* the earlier upsert stays with the content of the later.
UpsertKeepsEmbedding(rows, p, ck, ct, emb, t, id) ==
    IF HasRow(rows, p)
    THEN {IF r.file_path = p
          THEN [r EXCEPT !.checksum = ck, !.content = ct, !.updated_at = t]
          ELSE r : r \in rows}
    ELSE rows \cup {[id |-> id, file_path |-> p, checksum |-> ck, content |-> ct,
                     embedding |-> emb, indexed_at |-> t, updated_at |-> t]}

\* ON CONFLICT handled as a replacement of the row: indexed_at is set anew.
UpsertResetsIndexedAt(rows, p, ck, ct, emb, t, id) ==
    {r \in rows : r.file_path # p}
        \cup {[id |-> IF HasRow(rows, p) THEN RowFor(rows, p).id ELSE id,
               file_path |-> p, checksum |-> ck, content |-> ct,
               embedding |-> emb, indexed_at |-> t, updated_at |-> t]}

UpsertRows(rows, p, ck, ct, emb, t, id) ==
    IF HasRow(rows, p)
    THEN {IF r.file_path = p
          THEN [r EXCEPT !.checksum = ck, !.content = ct, !.embedding = emb,
                         !.updated_at = t]
          ELSE r : r \in rows}
    ELSE rows \cup {[id |-> id, file_path |-> p, checksum |-> ck, content |-> ct,
                     embedding |-> emb, indexed_at |-> t, updated_at |-> t]}

\* DELETE FROM markdown_documents WHERE file_path = $1
DeleteAllRows(rows, p) == {}

DeleteRows(rows, p) == {r \in rows : r.file_path # p}

\* get_document_by_path: the Document of the path, or None.
get_document_by_path(rows, p) == IF HasRow(rows, p) THEN RowFor(rows, p) ELSE None

\* SELECT * FROM markdown_documents ORDER BY indexed_at DESC: every order the
\* database may return (rows of equal indexed_at come in any order).
get_all_documents(rows) ==
    {s \in Enumerations(rows) :
        \A i, j \in 1..Len(s) : i < j => s[i].indexed_at >= s[j].indexed_at}

(* ------------------------- state and Init ----------------------------- *)

\* stats of index_directory (the "indexed" key counts created Documents).
ZeroStats == [indexed |-> 0, updated |-> 0, deleted |-> 0, skipped |-> 0, errors |-> 0]

\* The document being ingested by a task: nothing yet.
NoCur == [checksum |-> "", content |-> "", embedding |-> None, isNew |-> FALSE]

\* What a run did with a path: the counter it incremented and, for errors,
\* the statement that raised.
ErrKinds == {"err_read", "err_validate", "err_embed", "err_store"}

\* Failures of a collaborator (filesystem read, embedding client, Store).
UpstreamErr == {"err_read", "err_embed", "err_store"}

NoOutcome == [p \in Paths |-> "none"]

\* content_read: the paths whose content the run has read (the read of
\* index_directory's "with open(file_path, "r")" has returned).
RecIdle ==
    [pc |-> "idle", files |-> <<>>, docs |-> <<>>, i |-> 1, j |-> 1,
     stats |-> ZeroStats, outcome |-> NoOutcome, cur |-> NoCur,
     content_read |-> {}]

TaskIdle == [pc |-> "idle", kind |-> "none", path |-> "", cur |-> NoCur, res |-> "none"]

\* What the caller of two back-to-back runs of index_directory remembers of the
\* first: that it returned ("after1", then "in2" while the second runs), whether a
\* collaborator failed in it, and the table it left.
NoHist == [phase |-> "none", fail |-> FALSE, store |-> {}]

\* The last search request and its response: the entry point, the arguments,
\* the collaborator calls made for it, and the outcome ("ok" with the result
\* list, or "error" with its kind).
NoSearch ==
    [entry |-> "none", query |-> "", max_distance |-> 0, limit |-> None,
     embedCalled |-> FALSE, embedOk |-> FALSE, storeCalled |-> FALSE,
     outcome |-> "none", error |-> "none", results |-> <<>>]

\* The last listing request (get_all_documents with its arguments) and the
\* list it returned.
\* The watcher before awatch has yielded anything: running, no batch at hand.
\* why: what ended the loop.
\* logged: logger.error has been called for a failed index_file.
NoWatch == [pc |-> "waiting", batch |-> <<>>, why |-> "none", logged |-> FALSE]

NoList == [called |-> FALSE, limit |-> None, offset |-> 0, results |-> <<>>]

Init ==
    /\ disk \in [Paths -> Contents \cup {NoFile}]
    /\ store = {}
    /\ now = 0
    /\ seq = 1
    /\ rec = RecIdle
    /\ hist = NoHist
    /\ task = [t \in Tasks |-> TaskIdle]
    /\ sr = NoSearch
    /\ ops = 0
    /\ ls = NoList
    /\ watch = NoWatch

\* No operation is in progress.
Quiescent ==
    /\ rec.pc = "idle"
    /\ \A t \in Tasks : task[t].pc = "idle"
    /\ sr.entry = "none"

\* Something other than index_directory acted: the next run is not the second of
\* two back-to-back runs.
Disturb == hist' = NoHist

(* --------------------------- the filesystem --------------------------- *)

\* Another process (an editor, the tests) writes or removes a file.
FsWrite(p, c) ==
    /\ c # disk[p]
    /\ disk' = [disk EXCEPT ![p] = c]
    /\ Disturb
    /\ UNCHANGED <<store, now, seq, rec, task, sr>>

FsRemove(p) ==
    /\ disk[p] # NoFile
    /\ disk' = [disk EXCEPT ![p] = NoFile]
    /\ Disturb
    /\ UNCHANGED <<store, now, seq, rec, task, sr>>

\* The last three characters of a path: its extension, for ".md".
Suffix(p) == IF Len(p) < 3 THEN "" ELSE SubSeq(p, Len(p) - 2, Len(p))

\* directory.rglob("*.md"): the pattern is matched as it is written, in lower
\* case (pathlib on a POSIX system).
Glob(p) == Suffix(p) = ".md"

\* find_markdown_files: the files under the root that match, as a set.
find_markdown_files == {p \in DOMAIN disk : disk[p] # NoFile /\ Glob(p)}

(* ------------------- index_directory (full reconciliation) ------------ *)

\* Snapshot documents whose path the scan did not return.
PendingDeletes(r) ==
    {k \in r.j..Len(r.docs) : r.docs[k].file_path \notin SeqToSet(r.files)}

\* The loop over markdown_files is over: go to the deletion pass, or return.
AfterFiles(r) ==
    IF PendingDeletes(r) = {} THEN [r EXCEPT !.pc = "done", !.cur = NoCur]
    ELSE [r EXCEPT !.pc = "delete", !.cur = NoCur]

\* The next iteration of "for file_path in markdown_files".
NextFile(r) ==
    IF r.i + 1 <= Len(r.files)
    THEN [r EXCEPT !.i = r.i + 1, !.pc = "file", !.cur = NoCur]
    ELSE AfterFiles([r EXCEPT !.i = r.i + 1])

\* The except clause counting the error and then leaving the loop.
CountErrorAbort(r, p, kind) ==
    [r EXCEPT !.stats.errors = r.stats.errors + 1, !.outcome[p] = kind,
              !.pc = "done", !.cur = NoCur]

\* stats["errors"] += 1 in the except clause; the loop goes on.
CountError(r, p, kind) ==
    NextFile([r EXCEPT !.stats.errors = r.stats.errors + 1, !.outcome[p] = kind])

\* "existing_doc.checksum != checksum" replaced by a test that never sees a change.
NeedsUpdateNever(existing, checksum) == FALSE

\* "existing_doc.checksum != checksum" replaced by a test that always sees a change.
NeedsUpdateAlways(existing, checksum) == TRUE

\* existing_doc.checksum != checksum
NeedsUpdate(existing, checksum) == existing.checksum # checksum

\* A lookup that never finds the path.
LookupNever(docs, p) == FALSE

\* existing_docs_by_path.get(file_path_str) is not None
Lookup(docs, p) == HasRow(SeqToSet(docs), p)

\* markdown_files = find_markdown_files(markdown_dir), in any enumeration order.
RecStart(order) ==
    /\ rec.pc = "idle"
    /\ order \in Enumerations(find_markdown_files)
    /\ rec' = [RecIdle EXCEPT !.pc = "snapshot", !.files = order]
    /\ hist' = IF hist.phase = "after1" THEN [hist EXCEPT !.phase = "in2"] ELSE NoHist
    /\ UNCHANGED <<disk, store, now, seq, task, sr>>

\* existing_docs = await get_all_documents(); a Store failure propagates.
RecSnapshot(ok) ==
    /\ rec.pc = "snapshot"
    /\ IF ok
       THEN \E docs \in get_all_documents(store) :
               rec' = IF Len(rec.files) >= 1
                      THEN [rec EXCEPT !.docs = docs, !.pc = "file"]
                      ELSE AfterFiles([rec EXCEPT !.docs = docs])
       ELSE rec' = [rec EXCEPT !.pc = "raised"]
    /\ UNCHANGED <<disk, store, now, seq, hist, task, sr>>

\* One iteration up to its first await: checksum, content read, lookup, branch,
\* and ingest_document's validation.  (The update branch also writes the new
\* checksum and content into the in-memory snapshot object; the run reads only
\* file_path from it afterwards, so rec.docs keeps the rows as they were read.)
RecFile(readOk) ==
    /\ rec.pc = "file"
    /\ LET p == rec.files[rec.i] IN
       IF ~readOk \/ disk[p] = NoFile
       THEN rec' = CountError(rec, p, "err_read")
       ELSE LET checksum == compute_checksum(disk[p])
                content  == disk[p]
                known    == Lookup(rec.docs, p)
                doc      == [file_path |-> p, checksum |-> checksum, content |-> content]
                read     == [rec EXCEPT !.content_read = rec.content_read \cup {p}]
            IN IF known /\ ~NeedsUpdate(RowFor(SeqToSet(rec.docs), p), checksum)
               THEN rec' = NextFile([read EXCEPT !.stats.skipped = rec.stats.skipped + 1,
                                                 !.outcome[p] = "skipped"])
               ELSE IF validate(doc) # <<>>
                    THEN rec' = CountError(read, p, "err_validate")
                    ELSE rec' = [read EXCEPT !.pc = "embed",
                                             !.cur = [checksum |-> checksum, content |-> content,
                                                      embedding |-> None, isNew |-> ~known]]
    /\ UNCHANGED <<disk, store, now, seq, hist, task, sr>>

\* "if embedding is None: raise" left out: the upsert goes on without a vector.
EmbeddingMissingIgnored(embedding) == FALSE

\* ingest_document: if embedding is None: raise ValueError
EmbeddingMissing(embedding) == embedding = None

\* embedding = await emb_service.generate_embedding(document.content)
RecEmbed(ok) ==
    /\ rec.pc = "embed"
    /\ LET p == rec.files[rec.i]
           embedding == generate_embedding(rec.cur.content, ok)
       IN IF EmbeddingMissing(embedding)
          THEN rec' = CountError(rec, p, "err_embed")
          ELSE rec' = [rec EXCEPT !.pc = "upsert", !.cur.embedding = embedding]
    /\ UNCHANGED <<disk, store, now, seq, hist, task, sr>>

\* The INSERT ... ON CONFLICT statement, then stats["indexed"/"updated"] += 1.
RecUpsert(ok) ==
    /\ rec.pc = "upsert"
    /\ LET p == rec.files[rec.i] IN
       IF ok
       THEN /\ now < MaxTime
            /\ store' = UpsertRows(store, p, rec.cur.checksum, rec.cur.content,
                                   rec.cur.embedding, now + 1, seq)
            /\ now' = now + 1
            /\ seq' = seq + 1
            /\ rec' = IF rec.cur.isNew
                      THEN NextFile([rec EXCEPT !.stats.indexed = rec.stats.indexed + 1,
                                                !.outcome[p] = "created"])
                      ELSE NextFile([rec EXCEPT !.stats.updated = rec.stats.updated + 1,
                                                !.outcome[p] = "updated"])
       ELSE /\ rec' = CountError(rec, p, "err_store")
            /\ UNCHANGED <<store, now, seq>>
    /\ UNCHANGED <<disk, hist, task, sr>>

\* The deletion pass counting a path only when delete_document found its row.
RecDeleteCountsFound(ok) ==
    /\ rec.pc = "delete"
    /\ LET k == CHOOSE k \in PendingDeletes(rec) : \A m \in PendingDeletes(rec) : k <= m IN
       IF ok
       THEN /\ store' = DeleteRows(store, rec.docs[k].file_path)
            /\ rec' = AfterFiles([rec EXCEPT !.j = k + 1,
                                             !.stats.deleted =
                                                 IF HasRow(store, rec.docs[k].file_path)
                                                 THEN rec.stats.deleted + 1
                                                 ELSE rec.stats.deleted])
       ELSE /\ rec' = [rec EXCEPT !.pc = "raised"]
            /\ UNCHANGED store
    /\ UNCHANGED <<disk, now, seq, hist, task, sr>>

\* for doc in existing_docs: if doc.file_path not in disk_paths:
\*     await delete_document(doc.file_path); stats["deleted"] += 1
RecDelete(ok) ==
    /\ rec.pc = "delete"
    /\ LET k == CHOOSE k \in PendingDeletes(rec) : \A m \in PendingDeletes(rec) : k <= m IN
       IF ok
       THEN /\ store' = DeleteRows(store, rec.docs[k].file_path)
            /\ rec' = AfterFiles([rec EXCEPT !.j = k + 1,
                                             !.stats.deleted = rec.stats.deleted + 1])
       ELSE /\ rec' = [rec EXCEPT !.pc = "raised"]
            /\ UNCHANGED store
    /\ UNCHANGED <<disk, now, seq, hist, task, sr>>

\* "return stats" (or the exception) has reached the caller.
RecReturn ==
    /\ rec.pc \in {"done", "raised"}
    /\ rec' = RecIdle
    /\ hist' = IF rec.pc = "done"
               THEN [phase |-> "after1",
                     fail  |-> \E p \in Paths : rec.outcome[p] \in UpstreamErr,
                     store |-> store]
               ELSE NoHist
    /\ UNCHANGED <<disk, store, now, seq, task, sr>>

(* ---------------- single-file tasks: index_file and its callers ------- *)

\* A task ends: its result (the Document, a bool, or the exception raised) is res.
ReturnFrom(t, kind, p, res) ==
    task' = [task EXCEPT ![t] = [TaskIdle EXCEPT !.pc = "returned", !.res = res,
                                                 !.kind = kind, !.path = p]]

Return(t, res) == ReturnFrom(t, task[t].kind, task[t].path, res)

\* The caller has taken the result.
TaskReturn(t) ==
    /\ task[t].pc = "returned"
    /\ task' = [task EXCEPT ![t] = TaskIdle]
    /\ UNCHANGED <<disk, store, now, seq, rec, hist, sr>>

\* index_file up to its first await: exists check, checksum, content read.
IndexFileBegin(t, kind, p, d) ==
    IF d[p] = NoFile
    THEN ReturnFrom(t, kind, p, "err_not_exists")
    ELSE task' = [task EXCEPT ![t] =
                    [pc |-> "get", kind |-> kind, path |-> p, res |-> "none",
                     cur |-> [checksum |-> compute_checksum(d[p]), content |-> d[p],
                              embedding |-> None, isNew |-> FALSE]]]

\* index_file(path), called by the watcher on an added/modified event or directly.
IndexFileStart(t, p) ==
    /\ task[t].pc = "idle"
    /\ IndexFileBegin(t, "index_file", p, disk)
    /\ Disturb
    /\ UNCHANGED <<disk, store, now, seq, rec, sr>>

\* The kinds of change the watcher is told of.
Changes == {"added", "modified", "deleted"}

\* A deleted event handled by deleting the path's Document.
WatchDeletedRemoves(t, p) ==
    /\ task[t].pc = "idle"
    /\ ReturnFrom(t, "watch_directory", p, "logged")
    /\ store' = DeleteRows(store, p)
    /\ Disturb
    /\ UNCHANGED <<disk, now, seq, rec, sr>>

\* watch_directory on a deleted event: the change is logged and nothing else
\* is done ("will be cleaned up on next full index").
WatchDeleted(t, p) ==
    /\ task[t].pc = "idle"
    /\ ReturnFrom(t, "watch_directory", p, "logged")
    /\ Disturb
    /\ UNCHANGED <<disk, store, now, seq, rec, sr>>

\* watch_directory on one change of a .md path: a deleted event is only
\* logged; an added or modified event runs index_file(path), whose exception,
\* if any, is logged.
WatchChange(t, change, p) ==
    IF change = "deleted" THEN WatchDeleted(t, p) ELSE IndexFileStart(t, p)

\* create_file without its exists check: the file is written in any case.
CreateFileOverwrite(t, p, c) ==
    /\ task[t].pc = "idle"
    /\ c \in Contents
    /\ disk' = [disk EXCEPT ![p] = c]
    /\ IndexFileBegin(t, "create_file", p, disk')
    /\ Disturb
    /\ UNCHANGED <<store, now, seq, rec, sr>>

\* create_file(filename, content): conflict if the file exists, else write and index.
CreateFileStart(t, p, c) ==
    /\ task[t].pc = "idle"
    /\ c \in Contents
    /\ IF disk[p] # NoFile
       THEN ReturnFrom(t, "create_file", p, "err_exists") /\ UNCHANGED disk
       ELSE /\ disk' = [disk EXCEPT ![p] = c]
            /\ IndexFileBegin(t, "create_file", p, disk')
    /\ Disturb
    /\ UNCHANGED <<store, now, seq, rec, sr>>

\* update_file without its exists check: open(file_path, "w") creates the file.
UpdateFileCreates(t, p, c) ==
    /\ task[t].pc = "idle"
    /\ c \in Contents
    /\ disk' = [disk EXCEPT ![p] = c]
    /\ IndexFileBegin(t, "update_file", p, disk')
    /\ Disturb
    /\ UNCHANGED <<store, now, seq, rec, sr>>

\* update_file(filename, content): not found if the file is missing, else write and index.
UpdateFileStart(t, p, c) ==
    /\ task[t].pc = "idle"
    /\ c \in Contents
    /\ IF disk[p] = NoFile
       THEN ReturnFrom(t, "update_file", p, "err_not_exists") /\ UNCHANGED disk
       ELSE /\ disk' = [disk EXCEPT ![p] = c]
            /\ IndexFileBegin(t, "update_file", p, disk')
    /\ Disturb
    /\ UNCHANGED <<store, now, seq, rec, sr>>

\* delete_file with the existence check left out: the Document of a missing
\* file is deleted from the Store all the same.
DeleteFileStartAnyway(t, p) ==
    /\ task[t].pc = "idle"
    /\ IF disk[p] = NoFile
       THEN /\ ReturnFrom(t, "delete_file", p, "false")
            /\ store' = DeleteRows(store, p)
            /\ UNCHANGED disk
       ELSE /\ disk' = [disk EXCEPT ![p] = NoFile]
            /\ task' = [task EXCEPT ![t] = [TaskIdle EXCEPT !.pc = "dbdelete",
                                                            !.kind = "delete_file",
                                                            !.path = p]]
            /\ UNCHANGED store
    /\ Disturb
    /\ UNCHANGED <<now, seq, rec, sr>>

\* delete_file(filename): False if the file is missing, else unlink, then the Store.
DeleteFileStart(t, p) ==
    /\ task[t].pc = "idle"
    /\ IF disk[p] = NoFile
       THEN ReturnFrom(t, "delete_file", p, "false") /\ UNCHANGED disk
       ELSE /\ disk' = [disk EXCEPT ![p] = NoFile]
            /\ task' = [task EXCEPT ![t] = [TaskIdle EXCEPT !.pc = "dbdelete",
                                                            !.kind = "delete_file",
                                                            !.path = p]]
    /\ Disturb
    /\ UNCHANGED <<store, now, seq, rec, sr>>

\* deleted = await delete_document(str(file_path)): "DELETE 1" or not.
DeleteFileDb(t, ok) ==
    /\ task[t].pc = "dbdelete"
    /\ IF ok
       THEN /\ store' = DeleteRows(store, task[t].path)
            /\ Return(t, IF HasRow(store, task[t].path) THEN "true" ELSE "false")
       ELSE /\ Return(t, "err_store")
            /\ UNCHANGED store
    /\ Disturb
    /\ UNCHANGED <<disk, now, seq, rec, sr>>

\* ingest_document(doc) called directly on a document built by the caller.
IngestStart(t, p, c) ==
    /\ task[t].pc = "idle"
    /\ c \in Contents
    /\ LET doc == [file_path |-> p, checksum |-> compute_checksum(c), content |-> c] IN
       IF validate(doc) # <<>>
       THEN ReturnFrom(t, "ingest_document", p, "err_validate")
       ELSE task' = [task EXCEPT ![t] =
                       [pc |-> "embed", kind |-> "ingest_document", path |-> p,
                        res |-> "none",
                        cur |-> [checksum |-> doc.checksum, content |-> c,
                                 embedding |-> None, isNew |-> ~HasRow(store, p)]]]
    /\ Disturb
    /\ UNCHANGED <<disk, store, now, seq, rec, sr>>

\* index_file given the checksum test of index_directory: a file whose checksum
\* is the persisted one is returned as it is stored, with no embedding call and
\* no upsert.
IndexFileGetSkips(t, ok) ==
    /\ task[t].pc = "get"
    /\ LET me  == task[t]
           doc == [file_path |-> me.path, checksum |-> me.cur.checksum,
                   content |-> me.cur.content]
       IN IF ~ok
          THEN Return(t, "err_store")
          ELSE IF HasRow(store, me.path) /\ RowFor(store, me.path).checksum = me.cur.checksum
               THEN Return(t, "ok")
               ELSE IF validate(doc) # <<>>
                    THEN Return(t, "err_validate")
                    ELSE task' = [task EXCEPT ![t].pc = "embed",
                                              ![t].cur.isNew = ~HasRow(store, me.path)]
    /\ Disturb
    /\ UNCHANGED <<disk, store, now, seq, rec, sr>>

\* existing_doc = await get_document_by_path(file_path), then ingest_document's
\* validation of the document built from it.
IndexFileGet(t, ok) ==
    /\ task[t].pc = "get"
    /\ LET me  == task[t]
           doc == [file_path |-> me.path, checksum |-> me.cur.checksum,
                   content |-> me.cur.content]
       IN IF ~ok
          THEN Return(t, "err_store")
          ELSE IF validate(doc) # <<>>
               THEN Return(t, "err_validate")
               ELSE task' = [task EXCEPT ![t].pc = "embed",
                                         ![t].cur.isNew = ~HasRow(store, me.path)]
    /\ Disturb
    /\ UNCHANGED <<disk, store, now, seq, rec, sr>>

\* The embedding step with create_file removing the file it wrote when the
\* embedding fails.
IngestEmbedCleansUp(t, ok) ==
    /\ task[t].pc = "embed"
    /\ LET embedding == generate_embedding(task[t].cur.content, ok) IN
       IF EmbeddingMissing(embedding)
       THEN /\ Return(t, "err_embed")
            /\ disk' = IF task[t].kind = "create_file"
                       THEN [disk EXCEPT ![task[t].path] = NoFile]
                       ELSE disk
       ELSE /\ task' = [task EXCEPT ![t].pc = "upsert", ![t].cur.embedding = embedding]
            /\ UNCHANGED disk
    /\ Disturb
    /\ UNCHANGED <<store, now, seq, rec, sr>>

\* embedding = await emb_service.generate_embedding(document.content)
IngestEmbed(t, ok) ==
    /\ task[t].pc = "embed"
    /\ LET embedding == generate_embedding(task[t].cur.content, ok) IN
       IF EmbeddingMissing(embedding)
       THEN Return(t, "err_embed")
       ELSE task' = [task EXCEPT ![t].pc = "upsert", ![t].cur.embedding = embedding]
    /\ Disturb
    /\ UNCHANGED <<disk, store, now, seq, rec, sr>>

\* The INSERT ... ON CONFLICT statement; the document is returned.
IngestUpsert(t, ok) ==
    /\ task[t].pc = "upsert"
    /\ IF ok
       THEN /\ now < MaxTime
            /\ store' = UpsertRows(store, task[t].path, task[t].cur.checksum,
                                   task[t].cur.content, task[t].cur.embedding,
                                   now + 1, seq)
            /\ now' = now + 1
            /\ seq' = seq + 1
            /\ Return(t, "ok")
       ELSE /\ Return(t, "err_store")
            /\ UNCHANGED <<store, now, seq>>
    /\ Disturb
    /\ UNCHANGED <<disk, rec, sr>>

(* ------------- the mutation API: file names and their checks --------- *)

\* A file name is a sequence of pieces: path separators, "..", and name parts.
Separators == {"/", "\\"}

\* The file names passed to create_file, update_file and delete_file.
Filenames ==
    {<<"a", ".md">>, <<"a", ".MD">>, <<"a", ".txt">>,
     <<"..", "/", "a", ".md">>, <<"\\", "a", ".md">>}

\* The string of a sequence of pieces.
RECURSIVE Join(_)
Join(f) == IF f = <<>> THEN "" ELSE Head(f) \o Join(Tail(f))

\* str.lower() of a piece.
Lower(x) == IF x = ".MD" THEN ".md" ELSE x

\* The extension check dropped: every file name passes.
ValidFilenameAlways(f) == TRUE

\* filename.lower().endswith(".md")
ValidFilename(f) == f # <<>> /\ Lower(f[Len(f)]) = ".md"

\* The sanitization dropped: the file name is joined to the root as given.
CleanNothing(f) == f

\* filename_clean = filename.replace("/", "").replace("\\", "")
Clean(f) == SelectSeq(f, LAMBDA x : x \notin Separators)

\* file_path = markdown_dir / filename_clean, written relative to markdown_dir.
PathOf(f) == Join(Clean(f))

\* The files the mutation API can be asked about: children of the root, and
\* the places the unsanitized names point to.
MutFiles == {Join(Clean(f)) : f \in Filenames} \cup {Join(f) : f \in Filenames}

\* raise ValueError("Filename must end with .md"), before anything else.
RejectFilename(t, kind, f) ==
    /\ task[t].pc = "idle"
    /\ ReturnFrom(t, kind, Join(f), "err_filename")
    /\ Disturb
    /\ UNCHANGED <<disk, store, now, seq, rec, sr>>

\* create_file(filename, content)
CreateFile(t, f, c) ==
    IF ~ValidFilename(f) THEN RejectFilename(t, "create_file", f)
    ELSE CreateFileStart(t, PathOf(f), c)

\* update_file(filename, content)
UpdateFile(t, f, c) ==
    IF ~ValidFilename(f) THEN RejectFilename(t, "update_file", f)
    ELSE UpdateFileStart(t, PathOf(f), c)

\* delete_file(filename)
DeleteFile(t, f) ==
    IF ~ValidFilename(f) THEN RejectFilename(t, "delete_file", f)
    ELSE DeleteFileStart(t, PathOf(f))

\* What the caller of create_file, update_file or delete_file gets for an
\* outcome: the class of the exception raised, or "return" for a value.  Every
\* refusal of the three functions, of index_file and of ingest_document is a
\* ValueError; a Store or file failure is the collaborator's own exception.
Raises(res) ==
    IF res \in {"err_filename", "err_exists", "err_not_exists", "err_not_markdown",
                "err_validate", "err_embed"}
    THEN "ValueError"
    ELSE IF res \in {"err_store", "err_read"} THEN "Exception" ELSE "return"

\* The error code of the JSON-RPC response of create_document, update_document
\* and delete_document for an outcome of the call (0: a result, no error).
JSONRPCError(kind, res) ==
    IF Raises(res) = "ValueError" THEN -32602
    ELSE IF Raises(res) = "Exception" THEN -32603
    ELSE IF kind = "delete_file" /\ res = "false" THEN -32602
    ELSE 0

\* The paths index_file is called with and the watcher is told of: files of
\* the root, named without separators.
EventPaths == {f \in Filenames : \A k \in 1..Len(f) : f[k] \notin Separators}

\* index_file(file_path) with its checks in order: the file exists, then
\* path.suffix.lower() == ".md".
IndexFile(t, f) ==
    IF disk[Join(f)] # NoFile /\ Lower(f[Len(f)]) # ".md"
    THEN /\ task[t].pc = "idle"
         /\ ReturnFrom(t, "index_file", Join(f), "err_not_markdown")
         /\ Disturb
         /\ UNCHANGED <<disk, store, now, seq, rec, sr>>
    ELSE IndexFileStart(t, Join(f))

\* The suffix filter of the watcher dropped: every change is handled.
IsMarkdownAlways(f) == TRUE

\* watch_directory: path_obj.suffix.lower() == ".md"
IsMarkdown(f) == Lower(f[Len(f)]) = ".md"

\* watch_directory on one change of any path: a path that is not a markdown
\* file is passed over; a deleted event is only logged; an added or modified
\* event runs index_file(path), whose exception, if any, is logged.
WatchEvent(t, change, f) ==
    IF ~IsMarkdown(f)
    THEN /\ task[t].pc = "idle"
         /\ ReturnFrom(t, "watch_directory", Join(f), "ignored")
         /\ Disturb
         /\ UNCHANGED <<disk, store, now, seq, rec, sr>>
    ELSE IF change = "deleted" THEN WatchDeleted(t, Join(f))
    ELSE IndexFile(t, f)

(* ------------------------------- search ------------------------------ *)

\* Query texts ("" is an empty or missing query) and distance thresholds in
\* tenths (21 is out of the range [0, 2]).
Queries == {"", "hello", "far"}

MaxDistances == {3, 5, 8, 21}

Limits == {None, <<1>>}

\* The threshold of the WHERE clause made exclusive.
WithinDistanceStrict(d, max_distance) == d < max_distance

\* WHERE embedding <=> $1 <= $2
WithinDistance(d, max_distance) == d <= max_distance

\* SELECT *, embedding <=> $1 AS distance ... WHERE ...: the matching rows,
\* each with its distance column (a NULL embedding never matches).
Matches(rows, q, max_distance) ==
    {[row |-> r, distance |-> CosineDistance(r.embedding, q)] :
        r \in {x \in rows : /\ x.embedding # None
                             /\ WithinDistance(CosineDistance(x.embedding, q),
                                               max_distance)}}

\* ... ORDER BY distance [LIMIT $3] OFFSET $4: every order the database may
\* return (rows of equal distance come in any order).
SearchRows(rows, q, max_distance, limit, offset) ==
    {IF limit = None
     THEN SubSeq(s, offset + 1, Len(s))
     ELSE SubSeq(s, offset + 1,
                 IF offset + limit[1] < Len(s) THEN offset + limit[1] ELSE Len(s)) :
        s \in {e \in Enumerations(Matches(rows, q, max_distance)) :
                  \A i, j \in 1..Len(e) : i < j => e[i].distance <= e[j].distance}}

\* _row_to_document: the MarkdownDocument of a row; the distance column is not
\* a field of MarkdownDocument and is dropped.
row_to_document(x) == x.row

\* search_documents(query, limit, offset = 0, max_distance): the list it
\* returns, given whether the embedding call succeeds.
search_documents(query, limit, max_distance, embedOk, rows) ==
    LET query_embedding == generate_embedding(query, embedOk) IN
    IF query_embedding = None
    THEN {<<>>}
    ELSE {[k \in 1..Len(s) |-> row_to_document(s[k])] :
            s \in SearchRows(rows, query_embedding, max_distance, limit, 0)}

\* search_documents called directly (the CLI, the tests).
SearchCore(query, limit, max_distance, embedOk) ==
    /\ sr.entry = "none"
    /\ \E results \in search_documents(query, limit, max_distance, embedOk, store) :
          sr' = [entry |-> "search_documents", query |-> query,
                 max_distance |-> max_distance, limit |-> limit,
                 embedCalled |-> TRUE, embedOk |-> embedOk, storeCalled |-> embedOk,
                 outcome |-> "ok", error |-> "none", results |-> results]
    /\ UNCHANGED <<disk, store, now, seq, rec, hist, task, ops, ls, watch>>

\* The response of a front-end that rejects the request before any call.
Rejected(entry, query, limit, max_distance, error) ==
    [entry |-> entry, query |-> query, max_distance |-> max_distance,
     limit |-> limit, embedCalled |-> FALSE, embedOk |-> FALSE,
     storeCalled |-> FALSE, outcome |-> "error", error |-> error, results |-> <<>>]

\* JSON-RPC _handle_search: parameter checks (-32602), search_documents, then
\* the result objects, each reading doc.distance; MarkdownDocument has no such
\* attribute, so a non-empty result list ends in the internal error (-32603)
\* of jsonrpc_handler.
JsonRpcSearch(query, limit, max_distance, embedOk) ==
    /\ sr.entry = "none"
    /\ IF query = "" \/ max_distance < 0 \/ max_distance > 20
       THEN sr' = Rejected("jsonrpc", query, limit, max_distance, "invalid_params")
       ELSE \E results \in search_documents(query, limit, max_distance, embedOk, store) :
              sr' = [entry |-> "jsonrpc", query |-> query,
                     max_distance |-> max_distance, limit |-> limit,
                     embedCalled |-> TRUE, embedOk |-> embedOk,
                     storeCalled |-> embedOk,
                     outcome |-> IF results = <<>> THEN "ok" ELSE "error",
                     error |-> IF results = <<>> THEN "none" ELSE "internal",
                     results |-> <<>>]
    /\ UNCHANGED <<disk, store, now, seq, rec, hist, task, ops, ls, watch>>

\* MCP _handle_search_markdown: "Error: Query is required" for an empty query,
\* else search_documents and the formatted snippets.
McpSearch(query, limit, max_distance, embedOk) ==
    /\ sr.entry = "none"
    /\ IF query = ""
       THEN sr' = Rejected("mcp", query, limit, max_distance, "query_required")
       ELSE \E results \in search_documents(query, limit, max_distance, embedOk, store) :
              sr' = [entry |-> "mcp", query |-> query,
                     max_distance |-> max_distance, limit |-> limit,
                     embedCalled |-> TRUE, embedOk |-> embedOk,
                     storeCalled |-> embedOk, outcome |-> "ok", error |-> "none",
                     results |-> results]
    /\ UNCHANGED <<disk, store, now, seq, rec, hist, task, ops, ls, watch>>

\* The response has reached the client.
SearchReturn ==
    /\ sr.entry # "none"
    /\ sr' = NoSearch
    /\ UNCHANGED <<disk, store, now, seq, rec, hist, task, ops, ls, watch>>

\* delete_document(file_path) called directly.
DeleteDocument(t, p, ok) ==
    /\ task[t].pc = "idle"
    /\ IF ~ok
       THEN /\ ReturnFrom(t, "delete_document", p, "err_store")
            /\ store' = store
       ELSE /\ ReturnFrom(t, "delete_document", p,
                          IF HasRow(store, p) THEN "true" ELSE "false")
            /\ store' = DeleteRows(store, p)
    /\ Disturb
    /\ UNCHANGED <<disk, now, seq, rec, sr>>

(* ------------------------------ listing ------------------------------ *)

\* Number of Documents of the tables that are listed.
MaxRows == 5

\* The files doc1.md, doc2.md, ... of the listing tests.
DocPath(k) == "doc" \o ToString(k) \o ".md"

ListLimits == {None, <<1>>, <<2>>}

ListOffsets == {0, 2}

\* The tables left by n calls of ingest_document on n new paths: ids follow
\* the order of the inserts, indexed_at = NOW() never decreases from one insert
\* to the next and may be the same for several (inserts of concurrent
\* connections that read the same clock value).  The later a Document, the
\* smaller its file name here.
TablesOf(n) ==
    {{[id |-> k, file_path |-> DocPath(n + 1 - k), checksum |-> compute_checksum("hello"),
       content |-> "hello", embedding |-> Vec("hello"),
       indexed_at |-> t[k], updated_at |-> t[k]] : k \in 1..n} :
        t \in {f \in [1..n -> 1..n] : \A i, j \in 1..n : i < j => f[i] <= f[j]}}

ListTables == UNION {TablesOf(n) : n \in 0..MaxRows}

\* [LIMIT $1] OFFSET $2 applied to the ordered rows.
LimitOffset(s, limit, offset) ==
    IF limit = None
    THEN SubSeq(s, offset + 1, Len(s))
    ELSE SubSeq(s, offset + 1,
                IF offset + limit[1] < Len(s) THEN offset + limit[1] ELSE Len(s))

\* get_all_documents(limit, offset): every list the database may return.
get_all_documents_page(rows, limit, offset) ==
    {LimitOffset(s, limit, offset) : s \in get_all_documents(rows)}

\* get_all_documents(limit, offset), called directly or by a list_documents
\* handler.
ListDocuments(limit, offset) ==
    /\ ~ls.called
    /\ \E results \in get_all_documents_page(store, limit, offset) :
          ls' = [called |-> TRUE, limit |-> limit, offset |-> offset,
                 results |-> results]
    /\ UNCHANGED <<disk, store, now, seq, rec, hist, task, sr, ops, watch>>

\* The list has reached the caller.
ListReturn ==
    /\ ls.called
    /\ ls' = NoList
    /\ UNCHANGED <<disk, store, now, seq, rec, hist, task, sr, ops, watch>>

(* --------------------------- specifications --------------------------- *)

\* The task that runs the single-file operations when they run one at a time.
Solo == "t1"

\* One operation at a time: an operation starts, and the filesystem changes,
\* only while no other operation is between two of its awaits.
Next ==
    \/ \E p \in Paths, c \in Contents : Quiescent /\ FsWrite(p, c) /\ UNCHANGED <<ops, ls, watch>>
    \/ \E p \in Paths : Quiescent /\ FsRemove(p) /\ UNCHANGED <<ops, ls, watch>>
    \/ \E order \in Enumerations(find_markdown_files) : Quiescent /\ RecStart(order) /\ UNCHANGED <<ops, ls, watch>>
    \/ \E ok \in BOOLEAN : RecSnapshot(ok) /\ UNCHANGED <<ops, ls, watch>>
    \/ \E ok \in BOOLEAN : RecFile(ok) /\ UNCHANGED <<ops, ls, watch>>
    \/ \E ok \in BOOLEAN : RecEmbed(ok) /\ UNCHANGED <<ops, ls, watch>>
    \/ \E ok \in BOOLEAN : RecUpsert(ok) /\ UNCHANGED <<ops, ls, watch>>
    \/ \E ok \in BOOLEAN : RecDelete(ok) /\ UNCHANGED <<ops, ls, watch>>
    \/ RecReturn /\ UNCHANGED <<ops, ls, watch>>
    \/ \E p \in Paths : Quiescent /\ IndexFileStart(Solo, p) /\ UNCHANGED <<ops, ls, watch>>
    \/ \E change \in Changes, p \in Paths :
          Quiescent /\ WatchChange(Solo, change, p) /\ UNCHANGED <<ops, ls, watch>>
    \/ \E p \in Paths, c \in Contents : Quiescent /\ CreateFileStart(Solo, p, c) /\ UNCHANGED <<ops, ls, watch>>
    \/ \E p \in Paths, c \in Contents : Quiescent /\ UpdateFileStart(Solo, p, c) /\ UNCHANGED <<ops, ls, watch>>
    \/ \E p \in Paths : Quiescent /\ DeleteFileStart(Solo, p) /\ UNCHANGED <<ops, ls, watch>>
    \/ \E ok \in BOOLEAN : DeleteFileDb(Solo, ok) /\ UNCHANGED <<ops, ls, watch>>
    \/ \E ok \in BOOLEAN : IndexFileGet(Solo, ok) /\ UNCHANGED <<ops, ls, watch>>
    \/ \E ok \in BOOLEAN : IngestEmbed(Solo, ok) /\ UNCHANGED <<ops, ls, watch>>
    \/ \E ok \in BOOLEAN : IngestUpsert(Solo, ok) /\ UNCHANGED <<ops, ls, watch>>
    \/ TaskReturn(Solo) /\ UNCHANGED <<ops, ls, watch>>

Spec == Init /\ [][Next]_vars

\* Concurrent tasks: index_directory, the single-file tasks and the filesystem
\* interleave at every await.  The tasks contend for one path, whose file holds
\* one of ConcContents or is missing.
ConcPaths == {"a.md"}

ConcContents == {"", "hello", "world"}

InitConc ==
    /\ Init
    /\ \A p \in Paths \ ConcPaths : disk[p] = NoFile
    /\ \A p \in ConcPaths : disk[p] \in ConcContents \cup {NoFile}

\* A new operation starts while the budget lasts.
Budget == ops < MaxOps /\ ops' = ops + 1

NextConc ==
    \/ \E p \in ConcPaths, c \in ConcContents : Budget /\ FsWrite(p, c) /\ UNCHANGED <<ls, watch>>
    \/ \E p \in ConcPaths : Budget /\ FsRemove(p) /\ UNCHANGED <<ls, watch>>
    \/ \E order \in Enumerations(find_markdown_files) : Budget /\ RecStart(order) /\ UNCHANGED <<ls, watch>>
    \/ \E ok \in BOOLEAN : RecSnapshot(ok) /\ UNCHANGED <<ops, ls, watch>>
    \/ \E ok \in BOOLEAN : RecFile(ok) /\ UNCHANGED <<ops, ls, watch>>
    \/ \E ok \in BOOLEAN : RecEmbed(ok) /\ UNCHANGED <<ops, ls, watch>>
    \/ \E ok \in BOOLEAN : RecUpsert(ok) /\ UNCHANGED <<ops, ls, watch>>
    \/ \E ok \in BOOLEAN : RecDelete(ok) /\ UNCHANGED <<ops, ls, watch>>
    \/ RecReturn /\ UNCHANGED <<ops, ls, watch>>
    \/ \E t \in Tasks, p \in ConcPaths : Budget /\ IndexFileStart(t, p) /\ UNCHANGED <<ls, watch>>
    \/ \E t \in Tasks, change \in Changes, p \in ConcPaths :
          Budget /\ WatchChange(t, change, p) /\ UNCHANGED <<ls, watch>>
    \/ \E t \in Tasks, p \in ConcPaths, c \in ConcContents : Budget /\ CreateFileStart(t, p, c) /\ UNCHANGED <<ls, watch>>
    \/ \E t \in Tasks, p \in ConcPaths, c \in ConcContents : Budget /\ UpdateFileStart(t, p, c) /\ UNCHANGED <<ls, watch>>
    \/ \E t \in Tasks, p \in ConcPaths : Budget /\ DeleteFileStart(t, p) /\ UNCHANGED <<ls, watch>>
    \/ \E t \in Tasks, p \in ConcPaths, c \in ConcContents : Budget /\ IngestStart(t, p, c) /\ UNCHANGED <<ls, watch>>
    \/ \E t \in Tasks, ok \in BOOLEAN : DeleteFileDb(t, ok) /\ UNCHANGED <<ops, ls, watch>>
    \/ \E t \in Tasks, ok \in BOOLEAN : IndexFileGet(t, ok) /\ UNCHANGED <<ops, ls, watch>>
    \/ \E t \in Tasks, ok \in BOOLEAN : IngestEmbed(t, ok) /\ UNCHANGED <<ops, ls, watch>>
    \/ \E t \in Tasks, ok \in BOOLEAN : IngestUpsert(t, ok) /\ UNCHANGED <<ops, ls, watch>>
    \/ \E t \in Tasks : TaskReturn(t) /\ UNCHANGED <<ops, ls, watch>>

SpecConc == InitConc /\ [][NextConc]_vars

\* The Store filled by direct calls of ingest_document and delete_document, and
\* searched through each entry point.
NextSearch ==
    \/ \E p \in Paths, c \in Contents :
          Quiescent /\ IngestStart(Solo, p, c) /\ UNCHANGED <<ops, ls, watch>>
    \/ \E ok \in BOOLEAN : IngestEmbed(Solo, ok) /\ UNCHANGED <<ops, ls, watch>>
    \/ \E ok \in BOOLEAN : IngestUpsert(Solo, ok) /\ UNCHANGED <<ops, ls, watch>>
    \/ TaskReturn(Solo) /\ UNCHANGED <<ops, ls, watch>>
    \/ \E p \in Paths, ok \in BOOLEAN :
          Quiescent /\ DeleteDocument(Solo, p, ok) /\ UNCHANGED <<ops, ls, watch>>
    \/ \E q \in Queries, l \in Limits, d \in MaxDistances, ok \in BOOLEAN :
          Quiescent /\ SearchCore(q, l, d, ok)
    \/ \E q \in Queries, l \in Limits, d \in MaxDistances, ok \in BOOLEAN :
          Quiescent /\ JsonRpcSearch(q, l, d, ok)
    \/ \E q \in Queries, l \in Limits, d \in MaxDistances, ok \in BOOLEAN :
          Quiescent /\ McpSearch(q, l, d, ok)
    \/ SearchReturn

\* The directory plays no part in a search: it is empty.
InitSearch ==
    /\ Init
    /\ \A p \in Paths : disk[p] = NoFile

SpecSearch == InitSearch /\ [][NextSearch]_vars

\* The contents passed to create_file and update_file.
MutContents == {"", "world"}

\* The mutation API called with file names, one call at a time.  Each child of
\* the root it can be asked about exists or not; the other places the file
\* names point to hold a file.
InitMut ==
    /\ disk \in [MutFiles -> {NoFile, "hello"}]
    /\ \A f \in Filenames :
          (~ValidFilename(f) \/ Join(f) # Join(Clean(f))) => disk[Join(f)] = "hello"
    /\ store = {}
    /\ now = 0
    /\ seq = 1
    /\ rec = RecIdle
    /\ hist = NoHist
    /\ task = [t \in Tasks |-> TaskIdle]
    /\ sr = NoSearch
    /\ ops = 0
    /\ ls = NoList
    /\ watch = NoWatch

NextMut ==
    \/ \E f \in Filenames, c \in MutContents :
          Quiescent /\ CreateFile(Solo, f, c) /\ UNCHANGED <<ops, ls, watch>>
    \/ \E f \in Filenames, c \in MutContents :
          Quiescent /\ UpdateFile(Solo, f, c) /\ UNCHANGED <<ops, ls, watch>>
    \/ \E f \in Filenames : Quiescent /\ DeleteFile(Solo, f) /\ UNCHANGED <<ops, ls, watch>>
    \/ \E f \in EventPaths : Quiescent /\ IndexFile(Solo, f) /\ UNCHANGED <<ops, ls, watch>>
    \/ \E change \in Changes, f \in EventPaths :
          Quiescent /\ WatchEvent(Solo, change, f) /\ UNCHANGED <<ops, ls, watch>>
    \/ \E ok \in BOOLEAN : DeleteFileDb(Solo, ok) /\ UNCHANGED <<ops, ls, watch>>
    \/ \E ok \in BOOLEAN : IndexFileGet(Solo, ok) /\ UNCHANGED <<ops, ls, watch>>
    \/ \E ok \in BOOLEAN : IngestEmbed(Solo, ok) /\ UNCHANGED <<ops, ls, watch>>
    \/ \E ok \in BOOLEAN : IngestUpsert(Solo, ok) /\ UNCHANGED <<ops, ls, watch>>
    \/ TaskReturn(Solo) /\ UNCHANGED <<ops, ls, watch>>

SpecMut == InitMut /\ [][NextMut]_vars

\* ---------------------------------------------------------------------------
\* list_files (indexer.py:316-323) returns list_filenames() of md_kb.database,
\* which the repository's database.py does not define: the function is taken
\* from the specification (4.7, listFilenames): one bare filename, the last
\* path component, for every indexed Document.

\* The pieces a stored path is made of.
PiecesOf(p) == CHOOSE f \in Filenames \cup {Clean(g) : g \in Filenames} : Join(f) = p

\* The path itself, directory part included.
BasenameWhole(f) == f

\* The last path component: what follows the last "/".
Basename(f) ==
    LET S == {k \in 1..Len(f) : f[k] = "/"}
        last == IF S = {} THEN 0 ELSE CHOOSE k \in S : \A j \in S : j <= k
    IN SubSeq(f, last + 1, Len(f))

\* One listing per order of the Documents: the specification fixes no order.
list_filenames(rows) ==
    {[k \in 1..Len(e) |-> Join(Basename(PiecesOf(e[k].file_path)))] : e \in Enumerations(rows)}

ListFiles ==
    /\ ~ls.called
    /\ rec.pc = "idle"
    /\ task[Solo].pc \in {"idle", "returned"}
    /\ \E results \in list_filenames(store) :
          ls' = [NoList EXCEPT !.called = TRUE, !.results = results]
    /\ UNCHANGED <<disk, store, now, seq, rec, hist, task, sr, ops, watch>>

\* Paths index_file is called with: a "/" makes a directory part.
NamePaths == {f \in Filenames : \A k \in 1..Len(f) : f[k] # "\\"}

NextNames ==
    \/ /\ ~ls.called
       /\ \/ \E f \in Filenames : Quiescent /\ CreateFile(Solo, f, "world")
          \/ \E f \in Filenames : Quiescent /\ DeleteFile(Solo, f)
          \/ \E f \in NamePaths : Quiescent /\ IndexFile(Solo, f)
          \/ \E ok \in BOOLEAN : DeleteFileDb(Solo, ok)
          \/ \E ok \in BOOLEAN : IndexFileGet(Solo, ok)
          \/ \E ok \in BOOLEAN : IngestEmbed(Solo, ok)
          \/ \E ok \in BOOLEAN : IngestUpsert(Solo, ok)
          \/ TaskReturn(Solo)
       /\ UNCHANGED <<ops, ls, watch>>
    \/ ListFiles
    \/ ListReturn

SpecNames == InitMut /\ [][NextNames]_vars

\* ---------------------------------------------------------------------------
\* watch_directory: the loop "async for changes in awatch(...)" over batches of
\* changes, and the loop over the changes of a batch.

\* The task record in which the watcher's index_file call runs.
Watcher == "t2"

WatchEvents ==
    {<<"added", <<"a", ".md">>>>, <<"modified", <<"a", ".md">>>>,
     <<"deleted", <<"a", ".md">>>>, <<"modified", <<"a", ".MD">>>>,
     <<"modified", <<"a", ".txt">>>>}

\* The batches awatch yields: one change, or two.
WatchBatches ==
    {<<e>> : e \in WatchEvents} \cup {<<e1, e2>> : e1 \in WatchEvents, e2 \in WatchEvents}

\* awatch yields a set of changes.
WatchYield(batch) ==
    /\ watch.pc = "waiting"
    /\ watch' = [watch EXCEPT !.pc = "batch", !.batch = batch]
    /\ UNCHANGED <<disk, store, now, seq, rec, hist, task, sr>>

\* The body of "for change_type, path in changes" up to its first await, or
\* to its continue.
WatchHandle ==
    /\ watch.pc = "batch"
    /\ WatchEvent(Watcher, Head(watch.batch)[1], Head(watch.batch)[2])
    /\ watch' = [watch EXCEPT !.pc = "event"]

\* The watcher without its try/except: the exception of index_file leaves the
\* loop.
WatchResumeRaises ==
    /\ watch.pc = "event"
    /\ task[Watcher].pc = "returned"
    /\ task' = [task EXCEPT ![Watcher] = TaskIdle]
    /\ watch' = IF Raises(task[Watcher].res) # "return"
                THEN [watch EXCEPT !.pc = "ended", !.why = "exception"]
                ELSE [watch EXCEPT !.batch = Tail(watch.batch),
                                   !.pc = IF Len(watch.batch) > 1 THEN "batch" ELSE "waiting"]
    /\ UNCHANGED <<disk, store, now, seq, rec, hist, sr>>

\* The change is dealt with: index_file returned, or raised and the except
\* clause logged the error, or the change was passed over; the loop goes to
\* the next change of the batch, or back to awatch.
WatchResume ==
    /\ watch.pc = "event"
    /\ task[Watcher].pc = "returned"
    /\ task' = [task EXCEPT ![Watcher] = TaskIdle]
    /\ watch' = [watch EXCEPT !.batch = Tail(watch.batch),
                              !.pc = IF Len(watch.batch) > 1 THEN "batch" ELSE "waiting",
                              !.logged = watch.logged \/ Raises(task[Watcher].res) # "return"]
    /\ UNCHANGED <<disk, store, now, seq, rec, hist, sr>>

\* The watcher task is cancelled at one of its awaits: CancelledError is not an
\* Exception, so it passes the except clause and ends the loop.
WatchCancel ==
    /\ \/ watch.pc = "waiting"
       \/ watch.pc = "event" /\ task[Watcher].pc \in {"get", "embed", "upsert"}
    /\ watch' = [watch EXCEPT !.pc = "ended", !.why = "cancelled"]
    /\ task' = [task EXCEPT ![Watcher] = TaskIdle]
    /\ UNCHANGED <<disk, store, now, seq, rec, hist, sr>>

\* awatch itself raises.
WatchSourceFails ==
    /\ watch.pc = "waiting"
    /\ watch' = [watch EXCEPT !.pc = "ended", !.why = "source"]
    /\ UNCHANGED <<disk, store, now, seq, rec, hist, task, sr>>

NextWatch ==
    \/ \E c \in MutContents : FsWrite("a.md", c) /\ UNCHANGED <<ops, ls, watch>>
    \/ FsRemove("a.md") /\ UNCHANGED <<ops, ls, watch>>
    \/ \E batch \in WatchBatches : WatchYield(batch) /\ UNCHANGED <<ops, ls>>
    \/ WatchHandle /\ UNCHANGED <<ops, ls>>
    \/ \E ok \in BOOLEAN : IndexFileGet(Watcher, ok) /\ UNCHANGED <<ops, ls, watch>>
    \/ \E ok \in BOOLEAN : IngestEmbed(Watcher, ok) /\ UNCHANGED <<ops, ls, watch>>
    \/ \E ok \in BOOLEAN : IngestUpsert(Watcher, ok) /\ UNCHANGED <<ops, ls, watch>>
    \/ WatchResume /\ UNCHANGED <<ops, ls>>
    \/ WatchCancel /\ UNCHANGED <<ops, ls>>
    \/ WatchSourceFails /\ UNCHANGED <<ops, ls>>

SpecWatch == InitMut /\ [][NextWatch]_vars

\* ---------------------------------------------------------------------------
\* index_directory after single-file operations on file names of either case.

ScanNames == {<<"a", ".md">>, <<"a", ".MD">>}

InitScan ==
    /\ disk = [p \in MutFiles |-> NoFile]
    /\ store = {}
    /\ now = 0
    /\ seq = 1
    /\ rec = RecIdle
    /\ hist = NoHist
    /\ task = [t \in Tasks |-> TaskIdle]
    /\ sr = NoSearch
    /\ ops = 0
    /\ ls = NoList
    /\ watch = NoWatch

NextScan ==
    \/ \E f \in ScanNames : Quiescent /\ CreateFile(Solo, f, "hello") /\ UNCHANGED <<ops, ls, watch>>
    \/ \E f \in ScanNames : Quiescent /\ UpdateFile(Solo, f, "world") /\ UNCHANGED <<ops, ls, watch>>
    \/ \E f \in ScanNames : Quiescent /\ WatchEvent(Solo, "modified", f) /\ UNCHANGED <<ops, ls, watch>>
    \/ \E ok \in BOOLEAN : IndexFileGet(Solo, ok) /\ UNCHANGED <<ops, ls, watch>>
    \/ \E ok \in BOOLEAN : IngestEmbed(Solo, ok) /\ UNCHANGED <<ops, ls, watch>>
    \/ \E ok \in BOOLEAN : IngestUpsert(Solo, ok) /\ UNCHANGED <<ops, ls, watch>>
    \/ TaskReturn(Solo) /\ UNCHANGED <<ops, ls, watch>>
    \/ \E order \in Enumerations(find_markdown_files) : Quiescent /\ RecStart(order) /\ UNCHANGED <<ops, ls, watch>>
    \/ \E ok \in BOOLEAN : RecSnapshot(ok) /\ UNCHANGED <<ops, ls, watch>>
    \/ \E ok \in BOOLEAN : RecFile(ok) /\ UNCHANGED <<ops, ls, watch>>
    \/ \E ok \in BOOLEAN : RecEmbed(ok) /\ UNCHANGED <<ops, ls, watch>>
    \/ \E ok \in BOOLEAN : RecUpsert(ok) /\ UNCHANGED <<ops, ls, watch>>
    \/ \E ok \in BOOLEAN : RecDelete(ok) /\ UNCHANGED <<ops, ls, watch>>
    \/ RecReturn /\ UNCHANGED <<ops, ls, watch>>

SpecScan == InitScan /\ [][NextScan]_vars

\* ---------------------------------------------------------------------------
\* The two reads of a file, compute_checksum(path) and open(path).read(), with
\* a write of the file by another process between them.  (No await separates
\* the reads, so no task of this program runs in between.)

\* index_file(path) with the file rewritten to c between its two reads.
IndexFileTorn(t, p, c) ==
    /\ task[t].pc = "idle"
    /\ disk[p] # NoFile
    /\ c # disk[p]
    /\ disk' = [disk EXCEPT ![p] = c]
    /\ task' = [task EXCEPT ![t] =
                  [pc |-> "get", kind |-> "index_file", path |-> p, res |-> "none",
                   cur |-> [checksum |-> compute_checksum(disk[p]), content |-> c,
                            embedding |-> None, isNew |-> FALSE]]]
    /\ Disturb
    /\ UNCHANGED <<store, now, seq, rec, sr>>

\* One iteration of index_directory with the file rewritten to c between its
\* two reads.
RecFileTorn(c) ==
    /\ rec.pc = "file"
    /\ LET p == rec.files[rec.i] IN
       /\ disk[p] # NoFile
       /\ c # disk[p]
       /\ disk' = [disk EXCEPT ![p] = c]
       /\ LET checksum == compute_checksum(disk[p])
              content  == c
              known    == Lookup(rec.docs, p)
              doc      == [file_path |-> p, checksum |-> checksum, content |-> content]
              read     == [rec EXCEPT !.content_read = rec.content_read \cup {p}]
          IN IF known /\ ~NeedsUpdate(RowFor(SeqToSet(rec.docs), p), checksum)
             THEN rec' = NextFile([read EXCEPT !.stats.skipped = rec.stats.skipped + 1,
                                               !.outcome[p] = "skipped"])
             ELSE IF validate(doc) # <<>>
                  THEN rec' = CountError(read, p, "err_validate")
                  ELSE rec' = [read EXCEPT !.pc = "embed",
                                           !.cur = [checksum |-> checksum, content |-> content,
                                                    embedding |-> None, isNew |-> ~known]]
    /\ UNCHANGED <<store, now, seq, hist, task, sr>>

NextReads ==
    \/ \E c \in ConcContents : Quiescent /\ FsWrite("a.md", c) /\ UNCHANGED <<ops, ls, watch>>
    \/ Quiescent /\ IndexFileStart(Solo, "a.md") /\ UNCHANGED <<ops, ls, watch>>
    \/ \E c \in ConcContents : Quiescent /\ IndexFileTorn(Solo, "a.md", c) /\ UNCHANGED <<ops, ls, watch>>
    \/ \E ok \in BOOLEAN : IndexFileGet(Solo, ok) /\ UNCHANGED <<ops, ls, watch>>
    \/ \E ok \in BOOLEAN : IngestEmbed(Solo, ok) /\ UNCHANGED <<ops, ls, watch>>
    \/ \E ok \in BOOLEAN : IngestUpsert(Solo, ok) /\ UNCHANGED <<ops, ls, watch>>
    \/ TaskReturn(Solo) /\ UNCHANGED <<ops, ls, watch>>
    \/ \E order \in Enumerations(find_markdown_files) : Quiescent /\ RecStart(order) /\ UNCHANGED <<ops, ls, watch>>
    \/ \E ok \in BOOLEAN : RecSnapshot(ok) /\ UNCHANGED <<ops, ls, watch>>
    \/ \E ok \in BOOLEAN : RecFile(ok) /\ UNCHANGED <<ops, ls, watch>>
    \/ \E c \in ConcContents : RecFileTorn(c) /\ UNCHANGED <<ops, ls, watch>>
    \/ \E ok \in BOOLEAN : RecEmbed(ok) /\ UNCHANGED <<ops, ls, watch>>
    \/ \E ok \in BOOLEAN : RecUpsert(ok) /\ UNCHANGED <<ops, ls, watch>>
    \/ RecReturn /\ UNCHANGED <<ops, ls, watch>>

SpecReads == InitConc /\ [][NextReads]_vars

\* A table of up to MaxRows Documents, listed in whole and by pages.
InitList ==
    /\ disk = [p \in Paths |-> NoFile]
    /\ store \in ListTables
    /\ now = 0
    /\ seq = 1
    /\ rec = RecIdle
    /\ hist = NoHist
    /\ task = [t \in Tasks |-> TaskIdle]
    /\ sr = NoSearch
    /\ ops = 0
    /\ ls = NoList
    /\ watch = NoWatch

NextList ==
    \/ \E l \in ListLimits, k \in ListOffsets : ListDocuments(l, k)
    \/ ListReturn

SpecList == InitList /\ [][NextList]_vars

(* ------------------- index_directory: the claims ---------------------- *)

\* index_directory has returned its stats and the caller holds them.
RecDone == rec.pc = "done"

\* existing_docs, the table as the run read it, and markdown_files as a set.
Snapshot == SeqToSet(rec.docs)

Scanned == SeqToSet(rec.files)

Counted(kinds) == Cardinality({p \in Paths : rec.outcome[p] \in kinds})

\* Each counter is the number of paths the run handled that way.
StatsMatchOutcomes ==
    /\ rec.stats.indexed = Counted({"created"})
    /\ rec.stats.updated = Counted({"updated"})
    /\ rec.stats.skipped = Counted({"skipped"})
    /\ rec.stats.errors = Counted(ErrKinds)

NoUpstreamFailure == \A p \in Paths : rec.outcome[p] \notin UpstreamErr

\* The table holds exactly one Document per pair of pairs, with that content
\* and the checksum of that content.
Holds(rows, pairs) ==
    /\ Cardinality(rows) = Cardinality(pairs)
    /\ \A r \in rows : /\ <<r.file_path, r.content>> \in pairs
                       /\ r.checksum = compute_checksum(r.content)

C1_FirstRun ==
    /\ RecDone
    /\ NoUpstreamFailure
    /\ rec.docs = <<>>
    /\ disk = [p \in Paths |-> IF p = "a.md" THEN "hello" ELSE "world"]

C1_SecondRun ==
    /\ RecDone
    /\ NoUpstreamFailure
    /\ Holds(Snapshot, {<<"a.md", "hello">>, <<"b.md", "world">>})
    /\ disk = [p \in Paths |-> IF p = "a.md" THEN NoFile ELSE "world wide"]

\* C1: with a.md = "hello" and b.md = "world" on disk, an empty Store and no
\* collaborator failing, index_directory returns created 2 and all other
\* counters 0 and leaves one Document per file; run again on that Store after
\* a.md is removed and b.md changed to "world wide", it returns updated 1,
\* deleted 1 and all other counters 0, and the Store holds exactly the Document
\* of b.md with content "world wide".
C1_EndToEnd ==
    /\ C1_FirstRun =>
          /\ rec.stats = [indexed |-> 2, updated |-> 0, deleted |-> 0,
                          skipped |-> 0, errors |-> 0]
          /\ Holds(store, {<<"a.md", "hello">>, <<"b.md", "world">>})
    /\ C1_SecondRun =>
          /\ rec.stats = [indexed |-> 0, updated |-> 1, deleted |-> 1,
                          skipped |-> 0, errors |-> 0]
          /\ Holds(store, {<<"b.md", "world wide">>})

C1_Witness == C1_SecondRun /\ rec.stats.updated = 1 /\ rec.stats.deleted = 1

SecondRunChangesNothing ==
    /\ rec.stats.indexed = 0
    /\ rec.stats.updated = 0
    /\ rec.stats.deleted = 0
    /\ store = hist.store

Changed(p) ==
    /\ p \in Scanned
    /\ disk[p] # NoFile
    /\ HasRow(Snapshot, p)
    /\ RowFor(Snapshot, p).checksum # compute_checksum(disk[p])

\* C3 as stated: a tracked path whose content was edited is counted under
\* updated by the next run, never under created, skipped or errors (here even
\* in the runs in which no file read, embedding call or Store call fails).
C3_AsStated ==
    (RecDone /\ NoUpstreamFailure) =>
        \A p \in Paths : Changed(p) => rec.outcome[p] = "updated"

\* C3 amended: such a path is counted under updated, with its Document
\* rewritten to the file's content, when the file is read, is non-empty and the
\* embedding and the upsert succeed; it is counted under errors, with its
\* Document left as it was, when one of those fails; it is never counted under
\* created or skipped.
C3_ChangeDetection ==
    RecDone =>
        /\ StatsMatchOutcomes
        /\ \A p \in Paths : Changed(p) =>
              /\ rec.outcome[p] \in {"updated"} \cup ErrKinds
              /\ rec.outcome[p] = "updated" =>
                    /\ disk[p] # ""
                    /\ HasRow(store, p)
                    /\ RowFor(store, p).content = disk[p]
                    /\ RowFor(store, p).checksum = compute_checksum(disk[p])
              /\ rec.outcome[p] \in ErrKinds => RowFor(Snapshot, p) \in store
              /\ disk[p] = "" => rec.outcome[p] \in {"err_read", "err_validate"}
              /\ rec.outcome[p] = "err_validate" => disk[p] = ""

C3_Witness ==
    /\ RecDone
    /\ \E p \in Paths : Changed(p) /\ rec.outcome[p] = "updated"
    /\ rec.stats.updated = 1

\* Snapshot Documents whose file is gone.
Removed == {d \in Snapshot : d.file_path \notin Scanned}

InSync(d) ==
    /\ disk[d.file_path] # NoFile
    /\ d.checksum = compute_checksum(disk[d.file_path])

C4_OneRemoved ==
    /\ RecDone
    /\ Cardinality(Removed) = 1
    /\ \A d \in Snapshot \ Removed : InSync(d)

\* C4: when exactly one tracked file was removed and the other tracked files
\* are unchanged, the run reports deleted = 1, the Store no longer holds the
\* Document of the removed path, and every other Document is the same record as
\* before, in all fields.
C4_Deletion ==
    C4_OneRemoved =>
        /\ rec.stats.deleted = 1
        /\ \A d \in Removed : ~HasRow(store, d.file_path)
        /\ \A d \in Snapshot \ Removed : d \in store
        /\ \A r \in store : HasRow(Snapshot, r.file_path) => r \in Snapshot

C4_Witness == C4_OneRemoved /\ Cardinality(Snapshot) = 2 /\ Cardinality(store) = 1

\* What the run does with a scanned path when nothing fails for it.
Expected(p) ==
    IF ~HasRow(Snapshot, p) THEN "created"
    ELSE IF RowFor(Snapshot, p).checksum # compute_checksum(disk[p]) THEN "updated"
    ELSE "skipped"

\* A step of the create/update pass in which processing the current path fails.
C5_FailureStep ==
    /\ rec.pc \in {"file", "embed", "upsert"}
    /\ rec'.pc # "idle"
    /\ rec'.stats.errors # rec.stats.errors

C5_Step ==
    C5_FailureStep =>
        /\ rec'.stats = [rec.stats EXCEPT !.errors = rec.stats.errors + 1]
        /\ store' = store
        /\ rec'.i = rec.i + 1
        /\ rec.i < Len(rec.files) => rec'.pc = "file"

C5_AllProcessed ==
    RecDone =>
        /\ StatsMatchOutcomes
        /\ \A p \in Scanned :
              /\ rec.outcome[p] # "none"
              /\ rec.outcome[p] \notin ErrKinds => rec.outcome[p] = Expected(p)

\* C5: a failure while processing one path of the create/update pass adds
\* exactly one to errors, changes no other counter and no Document, and the
\* loop goes on: when the run returns every scanned path has been processed,
\* and each path that did not fail has the outcome it has without the failure.
C5_ErrorIsolation == [][C5_Step]_vars /\ [](C5_AllProcessed)

C5_Witness ==
    /\ RecDone
    /\ Len(rec.files) = 2
    /\ rec.outcome[rec.files[1]] \in ErrKinds
    /\ rec.outcome[rec.files[2]] = "created"
    /\ rec.stats.errors = 1
    /\ rec.stats.indexed = 1

(* ---------------------- ingest_document: the claims ------------------- *)

EveryRowHasEmbedding == \A r \in store : r.embedding # None

\* A step of a single-file task's ingest_document that leaves the embedding
\* call without going on to the upsert.
C6_TaskStep(t) ==
    (task[t].pc = "embed" /\ task'[t] # task[t]) =>
        \/ /\ task'[t].pc = "upsert"
           /\ task'[t].cur.embedding # None
           /\ store' = store
        \/ /\ task'[t].pc = "returned"
           /\ task'[t].res = "err_embed"
           /\ store' = store

\* The same step inside index_directory, whose except clause counts the error.
C6_RecStep ==
    (rec.pc = "embed" /\ rec' # rec) =>
        \/ /\ rec'.pc = "upsert"
           /\ rec'.cur.embedding # None
           /\ store' = store
        \/ /\ rec'.outcome[rec.files[rec.i]] = "err_embed"
           /\ rec'.stats.errors = rec.stats.errors + 1
           /\ store' = store

\* C6: no Document is persisted without an embedding; when the embedding call
\* of ingest_document fails the call ends in an error for its caller
\* (ValueError, or errors + 1 in index_directory) and the table is left exactly
\* as it was, so an existing Document of the path keeps all its fields.
C6_NoEmbeddingNoWrite ==
    /\ [](EveryRowHasEmbedding)
    /\ [][C6_RecStep /\ \A t \in Tasks : C6_TaskStep(t)]_vars

C6_Witness ==
    \E t \in Tasks :
        /\ task[t].pc = "returned"
        /\ task[t].res = "err_embed"
        /\ task[t].kind = "update_file"
        /\ HasRow(store, task[t].path)
        /\ RowFor(store, task[t].path).content # disk[task[t].path]

PathUnique == \A r1, r2 \in store : r1.file_path = r2.file_path => r1 = r2

\* Across one step, the record of a path that stays in the table keeps its id.
C7_KeepsId == \A r1 \in store, r2 \in store' : r1.file_path = r2.file_path => r1.id = r2.id

\* C7: in every state reached by interleaving index_directory, index_file,
\* create_file, update_file, delete_file and direct ingest_document calls, the
\* table holds at most one Document per path, and an upsert on a path already
\* present keeps the record's id.
C7_PathUniqueness == [](PathUnique) /\ [][C7_KeepsId]_vars

\* Two tasks upserted the same path: the later upsert met the record of the earlier.
C7_Witness ==
    /\ \E r \in store : r.updated_at > r.indexed_at /\ seq > r.id + 1
    /\ \A t \in Tasks : task[t].pc = "returned" /\ task[t].res = "ok" /\ task[t].cur = NoCur
    /\ ops = 2

(* --------------------------- search: the claims ----------------------- *)

SearchAnswered(entry) == sr.entry = entry /\ sr.outcome # "none"

DistanceTo(r) == CosineDistance(r.embedding, Vec(sr.query))

\* C8: search_documents with no limit, once the query is embedded, returns
\* exactly the Documents at distance <= max_distance from the query (the bound
\* included), each once, in non-decreasing order of distance.
C8_ThresholdAndOrder ==
    (SearchAnswered("search_documents") /\ sr.embedOk /\ sr.limit = None) =>
        /\ sr.outcome = "ok"
        /\ SeqToSet(sr.results) = {r \in store : DistanceTo(r) <= sr.max_distance}
        /\ Len(sr.results) = Cardinality(SeqToSet(sr.results))
        /\ \A i, j \in 1..Len(sr.results) :
              i < j => DistanceTo(sr.results[i]) <= DistanceTo(sr.results[j])

\* Documents at distances 0.3 and 0.8 and max_distance 0.5: the first is
\* returned and the second is not.
C8_Witness ==
    /\ SearchAnswered("search_documents")
    /\ sr.embedOk
    /\ sr.limit = None
    /\ sr.max_distance = 5
    /\ {DistanceTo(r) : r \in store} = {3, 8}
    /\ Len(sr.results) = 1
    /\ DistanceTo(sr.results[1]) = 3

\* C9: when the embedding client cannot embed the query, search_documents ends
\* in an error, not in an (empty) result list.
C9_EmbeddingFailureIsError ==
    (SearchAnswered("search_documents") /\ sr.embedCalled /\ ~sr.embedOk) =>
        sr.outcome = "error"

\* C10: an empty or missing query is rejected with an error on every entry
\* point (search_documents, the MCP handler, the JSON-RPC handler) and no
\* embedding or Store call is made for it.
C10_EmptyQueryIsError ==
    (sr.entry # "none" /\ sr.query = "") =>
        /\ sr.outcome = "error"
        /\ ~sr.embedCalled
        /\ ~sr.storeCalled

\* C11: every Document returned by search_documents carries the distance
\* between its embedding and the query embedding, so that the JSON-RPC search
\* handler, which reads the distance of every result, answers a valid request
\* whose query was embedded with its results.
C11_DistanceAttached ==
    /\ (SearchAnswered("search_documents") /\ sr.outcome = "ok") =>
          \A k \in 1..Len(sr.results) :
              /\ "distance" \in DOMAIN sr.results[k]
              /\ sr.results[k].distance = DistanceTo(sr.results[k])
    /\ (SearchAnswered("jsonrpc") /\ sr.embedCalled /\ sr.embedOk) =>
          sr.outcome = "ok"

(* --------------------------- listing: the claims ---------------------- *)

\* File names in ascending order: doc1.md before doc2.md before ...
DocNo(p) == CHOOSE k \in 1..(MaxRows + 1) : DocPath(k) = p

\* indexed_at descending, path ascending among equal indexed_at.
ListedBefore(r1, r2) ==
    \/ r1.indexed_at > r2.indexed_at
    \/ r1.indexed_at = r2.indexed_at /\ DocNo(r1.file_path) < DocNo(r2.file_path)

\* The one ordered listing of a table under that order.
OrderedListing(rows) ==
    CHOOSE s \in Enumerations(rows) :
        \A i, j \in 1..Len(s) : i < j => ListedBefore(s[i], s[j])

\* C12: get_all_documents() returns the Documents by indexed_at descending, and
\* Documents of equal indexed_at by path ascending, so that the same table is
\* always listed in the same sequence.
C12_ListingOrder ==
    (ls.called /\ ls.limit = None /\ ls.offset = 0) =>
        /\ SeqToSet(ls.results) = store
        /\ \A i, j \in 1..Len(ls.results) :
              i < j => ListedBefore(ls.results[i], ls.results[j])

\* C13: get_all_documents(limit = L, offset = K) returns exactly the elements
\* at positions K + 1 .. K + L (those that exist) of the ordered listing of the
\* table.
C13_Pagination ==
    (ls.called /\ ls.limit # None) =>
        ls.results = LimitOffset(OrderedListing(store), ls.limit, ls.offset)

\* The part of C13 that the code keeps: on a table whose indexed_at are
\* pairwise different, the page is that slice of the one ordered listing.
DistinctStamps == \A r1, r2 \in store : r1.indexed_at = r2.indexed_at => r1 = r2

PaginationOfDistinctStamps == DistinctStamps => C13_Pagination

(* ------------------------ mutation API: the claims -------------------- *)

\* The step in which the operation of the given kind run by task t completes
\* its upsert and returns the Document.
Completes(t, kind) ==
    /\ task[t].kind = kind
    /\ task[t].pc = "upsert"
    /\ task'[t].pc = "returned"
    /\ task'[t].res = "ok"

\* create_file(p, c) returns: get-by-path gives a Document of content c.
C14_CreateStep ==
    Completes(Solo, "create_file") =>
        LET p == task[Solo].path IN
        /\ get_document_by_path(store', p) # None
        /\ get_document_by_path(store', p).content = disk[p]
        /\ get_document_by_path(store', p).file_path = p

\* update_file(p, c) returns on a path that has a Document: get-by-path gives
\* the same record with content c and a later updated_at.
C14_UpdateStep ==
    (Completes(Solo, "update_file") /\ get_document_by_path(store, task[Solo].path) # None) =>
        LET p      == task[Solo].path
            before == get_document_by_path(store, p)
            after  == get_document_by_path(store', p)
        IN /\ after # None
           /\ after.content = disk[p]
           /\ after.file_path = before.file_path
           /\ after.id = before.id
           /\ after.indexed_at = before.indexed_at
           /\ after.updated_at > before.updated_at

\* C14: after create_file(name, c) a get-by-path of the resulting path returns
\* content c; after a following update_file(name, c2) it returns content c2
\* under the same path, id and indexed_at, with a strictly greater updated_at.
C14_RoundTrip == [][C14_CreateStep /\ C14_UpdateStep]_vars

\* update_file has returned on a Document first written earlier: its content
\* is the file's new content and its updated_at is past its indexed_at.
C14_Witness ==
    /\ task[Solo].pc = "returned"
    /\ task[Solo].kind = "update_file"
    /\ task[Solo].res = "ok"
    /\ get_document_by_path(store, task[Solo].path) # None
    /\ get_document_by_path(store, task[Solo].path).content = "world"
    /\ disk[task[Solo].path] = "world"
    /\ get_document_by_path(store, task[Solo].path).updated_at
          > get_document_by_path(store, task[Solo].path).indexed_at

\* File names that do not end with the document extension.
WrongExtension(f) == f[Len(f)] = ".txt"

\* The files whose content or existence the step changes.
Touched == {q \in DOMAIN disk : disk'[q] # disk[q]}

\* A call of create_file, update_file or delete_file with a file name of the
\* wrong extension is one step: it fails with the validation error and changes
\* neither a file nor the table.
C15_Step ==
    \A f \in Filenames :
        (/\ WrongExtension(f)
         /\ \/ \E c \in MutContents : CreateFile(Solo, f, c)
            \/ \E c \in MutContents : UpdateFile(Solo, f, c)
            \/ DeleteFile(Solo, f)) =>
            /\ task'[Solo].pc = "returned"
            /\ task'[Solo].res = "err_filename"
            /\ Touched = {}
            /\ store' = store

\* C15: create_file, update_file and delete_file called with a file name that
\* does not end with .md each fail with a validation error, and neither the
\* filesystem nor the Store changes.
C15_NoSideEffect == [][C15_Step]_vars

\* update_file("a.txt", c) was rejected and the existing a.txt is as it was.
C15_Witness ==
    /\ task[Solo].pc = "returned"
    /\ task[Solo].kind = "update_file"
    /\ task[Solo].res = "err_filename"
    /\ task[Solo].path = "a.txt"
    /\ disk["a.txt"] = "hello"
    /\ store # {}

\* The positions of a file name that hold no path separator, and the file name
\* made of the pieces at those positions, in their order.
Kept(f) == {k \in 1..Len(f) : f[k] # "/" /\ f[k] # "\\"}

Stripped(f) ==
    [i \in 1..Cardinality(Kept(f)) |->
        f[CHOOSE k \in Kept(f) : Cardinality({j \in Kept(f) : j <= k}) = i]]

\* A call with an accepted file name touches no file but the child of the root
\* named by the file name without its separators, and works on that path.
C19_CallStep ==
    (/\ task[Solo].pc = "idle"
     /\ task'[Solo].kind \in {"create_file", "update_file", "delete_file"}) =>
    \A f \in Filenames :
        (/\ ~WrongExtension(f)
         /\ \/ /\ task'[Solo].kind = "create_file"
               /\ \E c \in MutContents : CreateFile(Solo, f, c)
            \/ /\ task'[Solo].kind = "update_file"
               /\ \E c \in MutContents : UpdateFile(Solo, f, c)
            \/ /\ task'[Solo].kind = "delete_file"
               /\ DeleteFile(Solo, f)) =>
            /\ Touched \subseteq {Join(Stripped(f))}
            /\ task'[Solo].path = Join(Stripped(f))
            /\ \A k \in 1..Len(Stripped(f)) : Stripped(f)[k] \notin Separators

\* The later steps of a call (the Store lookups, the embedding, the upsert, the
\* delete) touch no file.
C19_LaterStep == task[Solo].pc # "idle" => Touched = {}

\* C19: for every file name accepted by create_file, update_file or
\* delete_file, "/" , "\" and ".." included, the file created, overwritten or
\* removed is the direct child of the root whose name is the file name with
\* every path separator removed.
C19_Sanitization == [][C19_CallStep /\ C19_LaterStep]_vars

\* create_file("../a.md", "world") wrote ..a.md in the root and left ../a.md.
C19_Witness ==
    /\ task[Solo].pc = "returned"
    /\ task[Solo].kind = "create_file"
    /\ task[Solo].res = "ok"
    /\ task[Solo].path = "..a.md"
    /\ disk["..a.md"] = "world"
    /\ disk["../a.md"] = "hello"
    /\ HasRow(store, "..a.md")

\* A call of create_file on a path whose file exists.
C16_Step ==
    \A p \in Paths, c \in Contents :
        (disk[p] # NoFile /\ CreateFileStart(Solo, p, c)) =>
            /\ task'[Solo].pc = "returned"
            /\ task'[Solo].res = "err_exists"
            /\ disk' = disk
            /\ store' = store

\* C16: create_file on a file name whose target file exists fails with the
\* conflict error ("File already exists"), and the file's content and the
\* Store, the path's Document included, are left as they were.
C16_CreateConflict == [][C16_Step]_vars

\* create_file was refused on a file that has a Document of its content.
C16_Witness ==
    /\ task[Solo].pc = "returned"
    /\ task[Solo].kind = "create_file"
    /\ task[Solo].res = "err_exists"
    /\ disk[task[Solo].path] = "hello"
    /\ get_document_by_path(store, task[Solo].path) # None
    /\ get_document_by_path(store, task[Solo].path).content = "hello"

\* A call of update_file on a path that has no file.
C17_Step ==
    \A p \in Paths, c \in Contents :
        (disk[p] = NoFile /\ UpdateFileStart(Solo, p, c)) =>
            /\ task'[Solo].pc = "returned"
            /\ task'[Solo].res = "err_not_exists"
            /\ disk' = disk
            /\ store' = store

\* C17: update_file on a file name whose target file does not exist fails with
\* the not-found error ("File does not exist"); it creates no file and changes
\* no Document, also when the Store still holds a Document of that path.
C17_UpdateMissing == [][C17_Step]_vars

\* update_file was refused on a missing file whose Document is still stored.
C17_Witness ==
    /\ task[Solo].pc = "returned"
    /\ task[Solo].kind = "update_file"
    /\ task[Solo].res = "err_not_exists"
    /\ disk[task[Solo].path] = NoFile
    /\ get_document_by_path(store, task[Solo].path) # None

\* The steps in which delete_file returns its bool: at once when the file is
\* missing, after the Store delete when the file was found and removed.
C18_Step ==
    /\ \A p \in Paths :
          (disk[p] = NoFile /\ DeleteFileStart(Solo, p)) =>
              /\ task'[Solo].res = "false"
              /\ disk' = disk
    /\ (/\ task[Solo].kind = "delete_file"
        /\ task[Solo].pc = "dbdelete"
        /\ task'[Solo].pc = "returned"
        /\ task'[Solo].res \in {"true", "false"}) =>
           /\ task'[Solo].res = "true"
           /\ disk'[task[Solo].path] = NoFile
           /\ get_document_by_path(store', task[Solo].path) = None

\* C18: delete_file returns true exactly when a file of that name was found on
\* disk and removed, whether or not the path had a Document; after it returns
\* true neither the file nor a Document of the path exists.
C18_DeleteResult == [][C18_Step]_vars

(* ---------------------------- the watcher: the claims ----------------- *)

\* The step in which the watcher handles a deleted event leaves the table.
C20_EventStep ==
    \A t \in Tasks :
        (/\ task[t].pc = "idle"
         /\ task'[t].kind = "watch_directory"
         /\ task'[t].res = "logged") => store' = store

\* A step that removes the Document of a path is a delete of index_directory's
\* deletion pass for a path its scan did not find, or the Store delete of a
\* delete_file of that path.
C20_RemovalStep ==
    \A p \in Paths :
        (HasRow(store, p) /\ ~HasRow(store', p)) =>
            \/ /\ rec.pc = "delete"
               /\ p \notin SeqToSet(rec.files)
               /\ rec'.stats.deleted = rec.stats.deleted + 1
            \/ \E t \in Tasks : /\ task[t].kind = "delete_file"
                                /\ task[t].pc = "dbdelete"
                                /\ task[t].path = p

\* C20: when the watcher processes a deleted event of a document path the
\* Store is left unchanged, the path's Document included; a Document is
\* removed only by a full reconciliation that runs after the file is gone or by
\* delete_file.
C20_DeletionDeferred == [][C20_EventStep /\ C20_RemovalStep]_vars

\* The watcher has handled the deleted event of a removed file, and the
\* Document of that path is still in the table.
C20_Witness ==
    \E t \in Tasks :
        /\ task[t].pc = "returned"
        /\ task[t].kind = "watch_directory"
        /\ task[t].res = "logged"
        /\ disk[task[t].path] = NoFile
        /\ HasRow(store, task[t].path)

\* The Store holds exactly one Document of the path, with the file's content
\* and checksum.
HoldsFile(p) ==
    /\ Cardinality({r \in store : r.file_path = p}) = 1
    /\ RowFor(store, p).content = disk[p]
    /\ RowFor(store, p).checksum = compute_checksum(disk[p])

\* index_file has ended for a path: it failed only for a missing file, an empty
\* file, an embedding failure or a Store failure, and otherwise the Document of
\* the path is the file as read.
C21_Resynced ==
    (task[Solo].pc = "returned" /\ task[Solo].kind = "index_file"
        /\ task[Solo].res # "err_not_markdown") =>
        LET p == task[Solo].path IN
        /\ task[Solo].res \in {"ok", "err_not_exists", "err_validate", "err_embed", "err_store"}
        /\ task[Solo].res = "err_not_exists" => disk[p] = NoFile
        /\ task[Solo].res = "err_validate" => disk[p] = ""
        /\ disk[p] \notin {NoFile, ""} => task[Solo].res \in {"ok", "err_embed", "err_store"}
        /\ task[Solo].res = "ok" => HoldsFile(p)

\* The watcher passes over a change of a path that is not a markdown file.
C21_OtherPathStep ==
    \A change \in Changes, f \in EventPaths :
        (WrongExtension(f) /\ WatchEvent(Solo, change, f)) =>
            /\ task'[Solo].res = "ignored"
            /\ store' = store

\* C21: when the watcher handles an added or modified event of a .md path whose
\* file exists with non-empty content, and the embedding and the Store calls
\* succeed, the Store then holds exactly one Document of the path, with the
\* content and checksum of the file as read; an event of a path without the
\* document extension changes nothing in the Store.
C21_WatcherResync == [](C21_Resynced) /\ [][C21_OtherPathStep]_vars

\* The watcher's index_file replaced the Document of a.md by the file's new
\* content.
C21_Witness ==
    /\ task[Solo].pc = "returned"
    /\ task[Solo].kind = "index_file"
    /\ task[Solo].res = "ok"
    /\ task[Solo].path = "a.md"
    /\ disk["a.md"] = "world"
    /\ HoldsFile("a.md")
    /\ RowFor(store, "a.md").updated_at > RowFor(store, "a.md").indexed_at

(* ----------------------- upserts: the claims -------------------------- *)

\* The fields an upsert writes.
Written(r) == <<r.checksum, r.content, r.embedding>>

\* The upserts in flight for a path: the documents whose INSERT ... ON CONFLICT
\* statement is the next step of a task or of index_directory.
InFlight(p) ==
    {Written(task[t].cur) : t \in {u \in Tasks : task[u].pc = "upsert" /\ task[u].path = p}}
        \cup (IF rec.pc = "upsert" /\ rec.files[rec.i] = p THEN {Written(rec.cur)} ELSE {})

\* A step that writes the Document of a path leaves it with the checksum,
\* content and embedding of one of the upserts in flight for the path.
C22_Step ==
    \A p \in Paths :
        (/\ HasRow(store', p)
         /\ (~HasRow(store, p) \/ RowFor(store', p) # RowFor(store, p))) =>
            Written(RowFor(store', p)) \in InFlight(p)

\* C22: when two upserts on one path overlap, the Document persisted after
\* each commit has checksum, content and embedding all of the upsert that
\* committed, never fields of both.
C22_NotMixed == [][C22_Step]_vars

\* Two upserts on a.md overlap with different contents: one has committed, the
\* other has its embedding and is about to commit.
C22_Witness ==
    \E t, u \in Tasks :
        /\ task[t].pc = "upsert"
        /\ task[t].path = "a.md"
        /\ task[u].pc = "returned"
        /\ task[u].res = "ok"
        /\ task[u].path = "a.md"
        /\ HasRow(store, "a.md")
        /\ RowFor(store, "a.md").updated_at = now
        /\ RowFor(store, "a.md").content # task[t].cur.content

\* Across one step, the Document of a path that stays in the table keeps its
\* indexed_at.
C23_Step ==
    \A r1 \in store, r2 \in store' :
        r1.file_path = r2.file_path => r2.indexed_at = r1.indexed_at

\* C23: the indexed_at of a path's Document is set by the upsert that inserts
\* the record and is left unchanged by every later upsert on the path, from
\* index_directory, the watcher's index_file or update_file, until the record
\* is deleted.
C23_IndexedAtOnce == [][C23_Step]_vars

\* A Document that was inserted and then upserted twice more.
C23_Witness ==
    \E r \in store : r.indexed_at = 1 /\ r.updated_at = 3 /\ r.id = 1 /\ seq = 4

\* A step that upserts on a path that has a Document advances its updated_at,
\* whatever the content written.
C24_UpsertStep ==
    \A p \in Paths :
        (/\ HasRow(store, p)
         /\ now' # now
         /\ \/ task[Solo].pc = "upsert" /\ task[Solo].path = p
            \/ rec.pc = "upsert" /\ rec.files[rec.i] = p) =>
            /\ HasRow(store', p)
            /\ RowFor(store', p).updated_at > RowFor(store, p).updated_at

\* index_file whose lookup finds a Document of the file's checksum goes on to
\* the embedding call (and from it to the upsert) all the same.
C24_IndexFileStep ==
    (/\ task[Solo].kind = "index_file"
     /\ task[Solo].pc = "get"
     /\ task'[Solo].res # "err_store"
     /\ HasRow(store, task[Solo].path)
     /\ RowFor(store, task[Solo].path).checksum = task[Solo].cur.checksum) =>
        /\ task'[Solo].pc = "embed"
        /\ task'[Solo].cur.content = RowFor(store, task[Solo].path).content

\* index_directory on a scanned path whose checksum is the snapshot's makes no
\* embedding call and no upsert: the path is skipped and the table is as it was.
C24_ReconcileStep ==
    (/\ rec.pc = "file"
     /\ rec'.outcome[rec.files[rec.i]] \notin ErrKinds
     /\ HasRow(Snapshot, rec.files[rec.i])
     /\ disk[rec.files[rec.i]] # NoFile
     /\ RowFor(Snapshot, rec.files[rec.i]).checksum
            = compute_checksum(disk[rec.files[rec.i]])) =>
        /\ rec'.outcome[rec.files[rec.i]] = "skipped"
        /\ rec'.pc # "embed"
        /\ store' = store

C25_Step ==
    \A p \in Paths :
        DeleteDocument(Solo, p, TRUE) =>
            /\ IF HasRow(store, p)
               THEN /\ task'[Solo].res = "true"
                    /\ store' = store \ {RowFor(store, p)}
               ELSE /\ task'[Solo].res = "false"
                    /\ store' = store
            /\ ~HasRow(store', p)
            /\ DeleteRows(store', p) = store'

\* C25: delete_document(path) returns true and removes the Document when the
\* path has one, returns false and changes nothing when it has none; the table
\* it leaves has no Document of the path, so that a second call in a row
\* returns false and leaves the same table; the Documents of other paths stay.
C25_DeleteIdempotent == [][C25_Step]_vars

\* delete_document has returned true and the Document of the other path is
\* still stored.
C25_Witness ==
    /\ task[Solo].pc = "returned"
    /\ task[Solo].kind = "delete_document"
    /\ task[Solo].res = "true"
    /\ ~HasRow(store, task[Solo].path)
    /\ store # {}

\* ---------------------------------------------------------------------------
\* list_files: the claim

\* How many entries of the listing are the name n.
Listed(results, n) == Cardinality({k \in 1..Len(results) : results[k] = n})

ListedNames == {Join(f) : f \in Filenames \cup {Clean(g) : g \in Filenames}}

\* The bare filename of a stored path: the name n with path = dir \o n for a
\* directory part dir that is empty or ends in "/".
BareNameOf ==
    [p \in ListedNames |->
      CHOOSE n \in ListedNames :
        /\ \E f \in Filenames \cup {Clean(g) : g \in Filenames} :
              \E k \in 0..Len(f) :
                  /\ Join(f) = p
                  /\ Join(SubSeq(f, k + 1, Len(f))) = n
                  /\ k > 0 => f[k] = "/"
                  /\ \A j \in k + 1..Len(f) : f[j] # "/"]

\* A step in which list_files returns.
C26_ListStep ==
    (~ls.called /\ ls'.called) =>
        /\ Len(ls'.results) = Cardinality(store)
        /\ \A n \in ListedNames \cup {ls'.results[k] : k \in 1..Len(ls'.results)} :
              Listed(ls'.results, n) = Cardinality({r \in store : BareNameOf[r.file_path] = n})

\* create_file that returns a Document has left the Document of the sanitized
\* name in the table.
C26_CreateStep ==
    (/\ task[Solo].kind = "create_file"
     /\ task'[Solo].pc = "returned"
     /\ task'[Solo].res = "ok") => HasRow(store', task[Solo].path)

\* C26: list_files returns one bare filename (the last path component, with no
\* directory part) for each Document of the table and nothing else; a
\* create_file that succeeded has left a Document, so that after two of them
\* on new filenames both names are listed.
C26_ListFilenames == [][C26_ListStep /\ C26_CreateStep]_vars

\* create_file has returned its Document and the listing made after it holds
\* its name and the name of another Document, one of which was stored under a
\* path with a directory part.
C26_Witness ==
    /\ task[Solo].pc = "returned"
    /\ task[Solo].kind = "create_file"
    /\ task[Solo].res = "ok"
    /\ ls.called
    /\ Len(ls.results) = 2
    /\ \E k \in 1..2 : ls.results[k] = task[Solo].path
    /\ HasRow(store, "../a.md")
    /\ \E k \in 1..2 : ls.results[k] = "a.md"

\* ---------------------------------------------------------------------------
\* error kinds: the claim

\* update_file or delete_file called for a valid filename whose file is missing.
C27_MissingCall ==
    /\ task[Solo].pc = "idle"
    /\ task'[Solo].pc = "returned"
    /\ task'[Solo].kind \in {"update_file", "delete_file"}
    /\ task'[Solo].res \in {"err_not_exists", "false"}
    /\ disk[task'[Solo].path] = NoFile

C27_Step ==
    C27_MissingCall =>
        /\ Raises(task'[Solo].res)
               \notin {Raises("err_filename"), Raises("err_exists")}
        /\ JSONRPCError(task'[Solo].kind, task'[Solo].res)
               \notin {JSONRPCError(task'[Solo].kind, "err_filename"),
                       JSONRPCError("create_file", "err_exists")}

\* C27: update_file and delete_file on a missing file report a not-found that
\* the caller can tell from a validation error (bad filename) and from a
\* conflict (create_file on an existing file), at the core interface and in
\* the JSON-RPC error.
C27_NotFoundDistinct == [][C27_Step]_vars

\* ---------------------------------------------------------------------------
\* search front-ends: the distance threshold

\* C28: a search request of either front-end whose max_distance lies outside
\* [0, 2] (0..20 in tenths) is answered with a validation error, and no
\* embedding call and no Store call is made for it.
C28_OutOfRangeRejected ==
    (/\ sr.entry \in {"jsonrpc", "mcp"}
     /\ (sr.max_distance < 0 \/ sr.max_distance > 20)) =>
        /\ sr.outcome = "error"
        /\ ~sr.embedCalled
        /\ ~sr.storeCalled

\* ---------------------------------------------------------------------------
\* index_directory: what a skipped file costs

\* The iteration of index_directory that skips a path.
C29_Step ==
    \A p \in Paths :
        (/\ rec.pc = "file"
         /\ rec.files[rec.i] = p
         /\ rec'.outcome[p] = "skipped") =>
            /\ rec'.stats.skipped = rec.stats.skipped + 1
            /\ p \notin rec'.content_read
            /\ rec'.pc # "embed"
            /\ store' = store

\* C29: for a scanned path whose checksum is the persisted one, index_directory
\* increments skipped and makes no content read, no embedding call and no Store
\* write for the path, so its Document, updated_at included, is unchanged.
C29_SkipCostsChecksumOnly == [][C29_Step]_vars

\* ---------------------------------------------------------------------------
\* index_directory: a failure in the deletion pass

\* The persisted paths absent from disk that the deletion pass has yet to
\* come to, the one being deleted left out.
C30_Others == PendingDeletes(rec) \ {CHOOSE k \in PendingDeletes(rec) : \A m \in PendingDeletes(rec) : k <= m}

\* A step of the deletion pass in which delete_document failed: nothing was
\* deleted and nothing counted as deleted.
C30_FailedDelete ==
    /\ rec.pc = "delete"
    /\ rec' # rec
    /\ store' = store
    /\ rec'.stats.deleted = rec.stats.deleted

C30_Step ==
    C30_FailedDelete =>
        /\ rec'.pc # "raised"
        /\ rec'.stats.errors = rec.stats.errors + 1
        /\ rec'.pc = (IF C30_Others = {} THEN "done" ELSE "delete")
        /\ PendingDeletes(rec') = C30_Others

\* C30: when delete_document fails for a persisted path absent from disk,
\* index_directory counts the failure under errors, goes on to delete every
\* other persisted path absent from disk and returns the five counters.
C30_DeletionPassGoesOn == [][C30_Step]_vars

\* ---------------------------------------------------------------------------
\* watch_directory: the loop and failed resyncs

\* The watcher's index_file ends in an error.
C31_Fails ==
    /\ task[Watcher].pc # "returned"
    /\ task'[Watcher].pc = "returned"
    /\ Raises(task'[Watcher].res) # "return"

\* The failure leaves the table as it was, and the loop goes to the next
\* change whatever the outcome of the one at hand.
C31_Step ==
    /\ C31_Fails => store' = store /\ watch'.pc = "event"
    /\ (watch.pc = "event" /\ task[Watcher].pc = "returned" /\ watch' # watch) =>
          /\ watch'.batch = Tail(watch.batch)
          /\ watch'.pc = (IF watch'.batch = <<>> THEN "waiting" ELSE "batch")
    /\ (watch.pc # "waiting" /\ watch'.batch # watch.batch) =>
          /\ task[Watcher].pc = "returned"
          /\ watch'.batch = Tail(watch.batch)

\* C31: a failed index_file of the watcher (file vanished, empty content,
\* embedding failure, Store failure) leaves the Store unchanged and the loop
\* running: the watcher goes on with the next change of the batch and with
\* later batches, no change is dropped unhandled, and the loop ends only by
\* cancellation or by a failure of awatch.
C31_WatcherSurvives ==
    [](watch.pc = "ended" => watch.why \in {"cancelled", "source"}) /\ [][C31_Step]_vars

\* After a failed index_file was logged the watcher has indexed a later change.
C31_Witness ==
    /\ watch.logged
    /\ watch.pc = "event"
    /\ task[Watcher].pc = "returned"
    /\ task[Watcher].res = "ok"
    /\ HasRow(store, task[Watcher].path)

\* ---------------------------------------------------------------------------
\* index_directory: the counters add up

\* C32: when index_directory returns its stats, indexed + updated + skipped +
\* errors is the number of scanned paths, and deleted is the number of
\* Documents of the snapshot whose path was not scanned, whether or not
\* delete_document found a row to remove.
C32_CounterConservation ==
    RecDone =>
        /\ rec.stats.indexed + rec.stats.updated + rec.stats.skipped + rec.stats.errors
               = Len(rec.files)
        /\ rec.stats.deleted = Cardinality(Removed)

\* The run counted the deletion of a Document that a delete_file had removed
\* before the deletion pass came to it: the only Document ever stored was
\* found by delete_file's own delete.
C32_Witness ==
    /\ RecDone
    /\ rec.stats.deleted = 1
    /\ seq = 2
    /\ \E t \in Tasks : /\ task[t].pc = "returned"
                        /\ task[t].kind = "delete_file"
                        /\ task[t].res = "true"

\* ---------------------------------------------------------------------------
\* index_directory interleaved with single-file tasks: the deletion pass

\* A step of the deletion pass that removes the Document of a path that
\* create_file or the watcher's index_file has just stored.
C33_Step ==
    \A p \in Paths :
        (/\ rec.pc = "delete"
         /\ rec'.stats.deleted = rec.stats.deleted + 1
         /\ HasRow(store, p)
         /\ ~HasRow(store', p)
         /\ \E t \in Tasks : /\ task[t].kind \in {"create_file", "index_file"}
                             /\ task[t].path = p
                             /\ task[t].pc = "returned"
                             /\ task[t].res = "ok") => disk[p] = NoFile

\* C33: whatever create_file calls and watcher resyncs run in between, every
\* Document the deletion pass of index_directory removes is of a path whose
\* file is absent from disk when it is removed.
C33_DeletesOnlyMissing == [][C33_Step]_vars

\* ---------------------------------------------------------------------------
\* the scan and the single-file operations: what a markdown file is

\* The test of create_file, index_file and the watcher: ".md" in either case.
C34_Accepted(p) == Lower(Suffix(p)) = ".md"

\* A step of the deletion pass that removes the Document of a path.
C34_Step ==
    \A p \in DOMAIN disk :
        (rec.pc = "delete" /\ HasRow(store, p) /\ ~HasRow(store', p)) => disk[p] = NoFile

\* C34: every file that create_file, index_file or the watcher accepts is
\* enumerated by find_markdown_files, so that index_directory, run with no
\* other task in flight, never deletes the Document of a file that is on disk.
C34_ScannerAgrees ==
    /\ [](\A p \in DOMAIN disk :
             (disk[p] # NoFile /\ C34_Accepted(p)) => p \in find_markdown_files)
    /\ [][C34_Step]_vars

\* ---------------------------------------------------------------------------
\* index_directory at quiescence

\* The document files on disk: the files the single-file operations accept.
C35_DocumentFiles == {p \in DOMAIN disk : disk[p] # NoFile /\ C34_Accepted(p)}

\* C35: a run of index_directory that starts with no other task in flight and
\* with no change of the files while it runs, in which no collaborator call
\* fails and every document file on disk is non-empty, returns with exactly
\* one Document for each document file on disk, holding the file's content and
\* checksum, and no other Document.
C35_Converges ==
    (/\ RecDone
     /\ NoUpstreamFailure
     /\ \A p \in C35_DocumentFiles : disk[p] # "") =>
        /\ \A p \in C35_DocumentFiles : HoldsFile(p)
        /\ \A r \in store : r.file_path \in C35_DocumentFiles

\* ---------------------------------------------------------------------------
\* overlapping index_file calls on one path

\* C36: when two resyncs of one path (update_file calls, or an update_file and
\* the watcher's index_file) have both returned their Document and nothing
\* else has touched the file, the Document's content is the file's content.
C36_NoStaleOverwrite ==
    \A t, u \in Tasks :
        (/\ t # u
         /\ ops = 2
         /\ task[t].pc = "returned" /\ task[u].pc = "returned"
         /\ task[t].res = "ok" /\ task[u].res = "ok"
         /\ task[t].kind \in {"update_file", "index_file"}
         /\ task[u].kind = "update_file"
         /\ task[t].path = task[u].path) =>
            /\ HasRow(store, task[t].path)
            /\ RowFor(store, task[t].path).content = disk[task[t].path]

\* ---------------------------------------------------------------------------
\* checksum and content of a Document

\* C37: every Document that index_directory or index_file has written has the
\* checksum of the content stored in the same Document, also when another
\* writer changes the file while it is being processed.
C37_ChecksumOfContent ==
    \A r \in store : r.checksum = compute_checksum(r.content)

\* ---------------------------------------------------------------------------
\* empty files

\* An iteration of index_directory over a file that is empty, and stays so
\* while it is read: the path is counted under errors and the table is as it
\* was.
C38_RecStep ==
    (/\ rec.pc = "file"
     /\ rec' # rec
     /\ disk' = disk
     /\ disk[rec.files[rec.i]] = "") =>
        /\ rec'.outcome[rec.files[rec.i]] \in ErrKinds
        /\ rec'.stats = [rec.stats EXCEPT !.errors = rec.stats.errors + 1]
        /\ store' = store

\* index_file that has read an empty file ends in an error and the table is as
\* it was.
C38_TaskStep ==
    \A t \in Tasks :
        (/\ task[t].pc = "get"
         /\ task[t].cur.content = ""
         /\ task'[t] # task[t]) =>
            /\ task'[t].res \in {"err_validate", "err_store"}
            /\ store' = store

\* C38: no Document is ever stored with empty content; index_directory counts
\* an empty file under errors in every run, never as created, updated or
\* skipped; and a file truncated to empty leaves the Document of its path as it
\* was, with its earlier content and checksum.
C38_EmptyNeverIndexed ==
    [](\A r \in store : r.content # "") /\ [][C38_RecStep /\ C38_TaskStep]_vars

\* ---------------------------------------------------------------------------
\* create_file whose index_file fails

\* create_file has raised the error of its index_file.
C39_Failed ==
    /\ task[Solo].pc = "returned"
    /\ task[Solo].kind = "create_file"
    /\ task[Solo].res \in {"err_validate", "err_embed", "err_store"}

C39_Step ==
    (/\ task[Solo].kind = "create_file"
     /\ task[Solo].pc \in {"get", "embed", "upsert"}
     /\ task'[Solo].res # "ok") => (store' = store /\ disk' = disk)

\* A create_file of a name whose file is on disk is refused and writes nothing.
C39_RetryStep ==
    \A p \in Paths :
        (/\ task[Solo].pc = "idle"
         /\ task'[Solo].kind = "create_file"
         /\ task'[Solo].path = p
         /\ disk[p] # NoFile) => (task'[Solo].res = "err_exists" /\ disk' = disk)

C40_Call(t, p) ==
    /\ task[t].pc = "idle"
    /\ task'[t].kind = "delete_file"
    /\ task'[t].path = p
    /\ disk[p] = NoFile

\* C40: delete_file of a file that is not on disk returns false in one step,
\* without a call of delete_document: the table is as it was, so a Document
\* still stored under the path stays, and nothing is written to disk.
C40_Step ==
    \A t \in Tasks : \A p \in Paths :
        C40_Call(t, p) =>
            /\ task'[t].pc = "returned"
            /\ task'[t].res = "false"
            /\ store' = store
            /\ disk' = disk

C40_MissingFileLeavesStore == [][C40_Step]_vars

\* delete_file has returned false for a missing file whose Document is stored.
C40_Witness ==
    \E t \in Tasks :
        /\ task[t].pc = "returned"
        /\ task[t].kind = "delete_file"
        /\ task[t].res = "false"
        /\ disk[task[t].path] = NoFile
        /\ HasRow(store, task[t].path)

====
